---- MODULE Spec2Model ----
(***************************************************************************)
(* ch.at: the shared machinery behind the HTTP, SSH, DNS and OpenAI        *)
(* adapters.                                                               *)
(*                                                                         *)
(*   - the per-IP admission controller of util.go (rateLimitAllow over a   *)
(*     table of golang.org/x/time/rate token buckets, hourly cleanup);     *)
(*   - the hand-rolled DNS codec and handler (DNSServer.handleQuery,       *)
(*     extractQuestion, buildDNSResponse, buildTXTData);                   *)
(*   - the admission gate at the head of every adapter.                    *)
(*                                                                         *)
(* Time is counted in whole seconds.  The limiter refills RateNum tokens   *)
(* every RateDen seconds, so token counts are kept in units of 1/RateDen   *)
(* of a token (One units = one token): one second adds RateNum units and   *)
(* every quantity stays an integer.  Bytes are the integers 0..255 and a   *)
(* Go string or []byte is the sequence of its bytes; Go's 0-based index i  *)
(* is position i+1 of the sequence.                                        *)
(***************************************************************************)
EXTENDS Integers, Sequences, FiniteSets, TLC

VARIABLES
    now,        \* the wall clock (time.Now()), in seconds since process start
    limiters,   \* util.go:13  the table: client key -> *rate.Limiter
    lastClean,  \* util.go:14  time of the last cleanup
    ncalls,     \* number of rateLimitAllow calls made so far
    ret,        \* the last rateLimitAllow call: its key and what it returned
    granted,    \* number of rateLimitAllow calls that returned true
    ticks,      \* number of clock advances made so far
    streak,     \* per key: the results of its calls since the clock last moved
    wire,       \* the datagram a DNS client is composing, then the one received
    compose,    \* how far the datagram is composed
    dnsOut,     \* what DNSServer.handleQuery did with the datagram
    httpOut,    \* what handleRoot or handleChatCompletions did with the request
    sshOut,     \* what SSHServer.handleConnection did with the connection
    codec,      \* an answer text and what the TXT encoders made of it
    coord,      \* the accumulate loop of handleDNS and the stream it reads
    hs,         \* one streamed HTTP response and its generation task
    sess,       \* one SSH session: the line editor of handleSession
    pool,       \* the accept loop of StartSSHServer and its connection slots
    hist,       \* the conversation history handleRoot takes in and sends back
    conc,       \* rateLimitAllow calls running at the same time, step by step
    udp,        \* the read loop of DNSServer.Start, its buffer and its handlers
    ref         \* the same calls on a table from which nothing is ever removed

limiterVars == <<now, limiters, lastClean, ncalls, ret, granted, ticks, streak>>

sessionVars == <<hs, sess, pool, hist, conc, udp, ref>>

adapterVars == <<wire, compose, dnsOut, httpOut, sshOut, codec, coord, hs, sess, pool, hist, conc, udp, ref>>

vars == <<now, limiters, lastClean, ncalls, ret, granted, ticks, streak,
          wire, compose, dnsOut, httpOut, sshOut, codec, coord, hs, sess, pool, hist, conc, udp, ref>>

-----------------------------------------------------------------------------
(* Bounds of the model *)

\* rateLimitAllow calls in one behaviour of SpecLimiter
MaxCalls == 12
\* clock advances in one behaviour of SpecLimiter
MaxTicks == 2
\* rateLimitAllow calls in one behaviour of SpecWindow
MaxWindowCalls == 101
\* seconds by which the clock of SpecWindow advances in one step
WindowStep == 3
\* labels a composed question name has at most
MaxLabels == 5
\* bytes a composed datagram has at most after the byte that ends its name
MaxTail == 5
MaxAnswer == 479
MaxText == 766
MaxFragment == 501
MaxFragments == 3
\* packets a client sends in one session, and packets waiting to be read
MaxPackets == 3
MaxPending == 2
\* calls made on addresses of every shape
MaxKeyCalls == 3
\* goroutines that call rateLimitAllow at the same time, and the calls they make
NumProcs == 2
MaxConcCalls == 12
\* bytes of the read buffer that are kept, and datagrams that arrive
BufLen == 3
MaxDatagrams == 3

-----------------------------------------------------------------------------
(* Generic helpers *)

Min(a, b) == IF a < b THEN a ELSE b

\* s[from..to) with Go's 0-based bounds
Slice(s, from, to) == SubSeq(s, from + 1, to)

-----------------------------------------------------------------------------
(* The admission controller: src/util.go *)

\* rate.NewLimiter(100.0/60, 10): 100 tokens per 60 seconds, burst 10
RateNum == 100
RateDen == 60
BurstOf100 == 10 * 10
Burst == 10
\* l.Tokens() >= 10: the cleanup drops the buckets that are full again
CleanTokens == 10
\* time.Hour, in seconds
Hour == 3600

\* one token, and a full bucket, in units of 1/RateDen token
One == RateDen
Full == Burst * One

\* Addresses as the adapters pass them (RemoteAddr strings): host:port and a
\* bare host.
Addrs ==
    { <<"a", ":", "1">>, <<"a", ":", "2">>, <<"b">> }

\* strings.IndexByte and LastIndexByte on the bytes from offset k on:
\* 0-based, -1 when the byte is not there
IndexFrom(str, k, c) ==
    LET at == { i \in k .. Len(str) - 1 : str[i + 1] = c }
    IN  IF at = {} THEN -1 ELSE CHOOSE i \in at : \A j \in at : i <= j

LastIndex(str, c) ==
    LET at == { i \in 0 .. Len(str) - 1 : str[i + 1] = c }
    IN  IF at = {} THEN -1 ELSE CHOOSE i \in at : \A j \in at : i >= j

\* net.SplitHostPort: the port starts after the last colon; a host in
\* brackets ends at the bracket right before that colon; an error when the
\* port is missing, when a host without brackets holds a colon, or when a
\* bracket is out of place
SplitHostPort(addr) ==
    LET i    == LastIndex(addr, ":")
        end  == IndexFrom(addr, 0, "]")
        fail == [err |-> TRUE, host |-> <<>>]
    IN  IF i < 0 THEN fail
        ELSE IF addr[1] = "["
        THEN IF end < 0 \/ end + 1 # i THEN fail
             ELSE IF IndexFrom(addr, 1, "[") >= 0 \/ IndexFrom(addr, end + 1, "]") >= 0
             THEN fail
             ELSE [err |-> FALSE, host |-> Slice(addr, 1, end)]
        ELSE IF IndexFrom(Slice(addr, 0, i), 0, ":") >= 0 THEN fail
             ELSE IF IndexFrom(addr, 0, "[") >= 0 \/ IndexFrom(addr, 0, "]") >= 0
             THEN fail
             ELSE [err |-> FALSE, host |-> Slice(addr, 0, i)]

\* util.go:19-22  the key: the address with its port stripped
ClientKeyKeepsPort(addr) == addr
ClientKey(addr) ==
    LET r == SplitHostPort(addr)
    IN  IF ~r.err THEN r.host ELSE addr

\* a bucket fresh from rate.NewLimiter: full
NewLimiter == [tokens |-> Full, last |-> 0]

\* rate.Limiter.advance: the token count at time t (refill since l.last,
\* capped at the burst)
TokensAt(l, t) ==
    LET last == IF t < l.last THEN t ELSE l.last
    IN  Min(Full, l.tokens + (t - last) * RateNum)

\* rate.Limiter.Allow at time t: take one token if there is one
LimiterAllow(l, t) ==
    LET tokens == TokensAt(l, t) - One
    IN  IF tokens >= 0
        THEN [ok |-> TRUE, lim |-> [tokens |-> tokens, last |-> t]]
        ELSE [ok |-> FALSE, lim |-> l]

\* util.go:25-33  the hourly cleanup: drop the buckets that are full again
CleanedDropAll(tbl, t, since) ==
    IF t - since > Hour
    THEN [k \in {} |-> NewLimiter]
    ELSE tbl
Cleaned(tbl, t, since) ==
    IF t - since > Hour
    THEN LET keep == { k \in DOMAIN tbl : ~(TokensAt(tbl[k], t) >= CleanTokens * One) }
         IN  [k \in keep |-> tbl[k]]
    ELSE tbl

\* limiters.LoadOrStore(ip, rate.NewLimiter(...)): the bucket of ip, a new
\* one when the table has none
LoadOrStoreAlwaysNew(tbl, ip) == NewLimiter
LoadOrStore(tbl, ip) == IF ip \in DOMAIN tbl THEN tbl[ip] ELSE NewLimiter

\* rateLimitAllow(addr) at time t on the table tbl, last cleaned at `since`:
\* what it returns and the table and cleanup time it leaves
RateLimitAllow(tbl, since, addr, t) ==
    LET ip      == ClientKey(addr)
        tbl1    == Cleaned(tbl, t, since)
        since1  == IF t - since > Hour THEN t ELSE since
        r       == LimiterAllow(LoadOrStore(tbl1, ip), t)
        tbl2    == [k \in DOMAIN tbl1 \cup {ip} |->
                        IF k = ip THEN r.lim ELSE tbl1[k]]
    IN  [ok |-> r.ok, ip |-> ip, limiters |-> tbl2, lastClean |-> since1]

\* what the key's bucket holds at time t, before a call: a key the table
\* does not hold has a full bucket
Available(tbl, ip, t) ==
    IF ip \in DOMAIN tbl THEN TokensAt(tbl[ip], t) ELSE Full

-----------------------------------------------------------------------------
(* The DNS codec and handler: src/unnamed/part_002 *)

\* reading b[i] outside the slice makes the Go runtime panic
Panic == 0 - 1

ByteAt(b, i) == IF 0 <= i /\ i < Len(b) THEN b[i + 1] ELSE Panic

\* b & 0xC0 and b & 0x80 of a byte
And0xC0(b) == (b \div 64) * 64
And0x80(b) == (b \div 128) * 128
\* b | 0x02 of a byte
Or0x02(b) == IF (b \div 2) % 2 = 1 THEN b ELSE b + 2

\* b with b[i] = v
WithByte(b, i, v) == [b EXCEPT ![i + 1] = v]

\* strings.Join(name, ".")
RECURSIVE Join(_)
Join(name) ==
    IF name = <<>> THEN <<>>
    ELSE IF Len(name) = 1 THEN name[1]
    ELSE name[1] \o <<46>> \o Join(Tail(name))

\* strings.TrimSuffix(s, suffix)
TrimSuffix(s, suffix) ==
    IF Len(s) >= Len(suffix)
       /\ SubSeq(s, Len(s) - Len(suffix) + 1, Len(s)) = suffix
    THEN SubSeq(s, 1, Len(s) - Len(suffix))
    ELSE s

\* strings.ReplaceAll(s, "-", " ")
DashToSpaceKeepsDashes(s) == s
DashToSpace(s) == [i \in 1 .. Len(s) |-> IF s[i] = 45 THEN 32 ELSE s[i]]

\* ".ch.at" and "."
DotChAt == <<46, 99, 104, 46, 97, 116>>
Dot == <<46>>
\* "Error: "
ErrorPrefix == <<69, 114, 114, 111, 114, 58, 32>>

\* part_002:104-140  the label loop of extractQuestion, from its i-th round
\* at offset pos: the labels read, where the walk stopped, and whether the
\* function returned "" from inside the loop or an index was out of range
RECURSIVE ExtractLoop(_, _, _, _, _)
ExtractLoopNoBoundsCheck(query, i, pos, name, totalLength) ==
    IF ~(i < 128 /\ pos < Len(query))
    THEN [fail |-> FALSE, panic |-> FALSE, name |-> name, pos |-> pos]
    ELSE LET length == ByteAt(query, pos)
         IN  IF length = Panic
             THEN [fail |-> TRUE, panic |-> TRUE, name |-> name, pos |-> pos]
             ELSE IF length = 0
             THEN [fail |-> FALSE, panic |-> FALSE, name |-> name, pos |-> pos]
             ELSE IF And0xC0(length) = 192
             THEN [fail |-> TRUE, panic |-> FALSE, name |-> name, pos |-> pos]
             ELSE IF length > 63
             THEN [fail |-> TRUE, panic |-> FALSE, name |-> name, pos |-> pos]
             ELSE IF totalLength + length + 1 > 255
             THEN [fail |-> TRUE, panic |-> FALSE, name |-> name, pos |-> pos + 1]
             ELSE IF pos + 1 + length > Len(query)
             THEN [fail |-> TRUE, panic |-> TRUE, name |-> name, pos |-> pos + 1]
             ELSE ExtractLoop(query, i + 1, pos + 1 + length,
                              Append(name, Slice(query, pos + 1, pos + 1 + length)),
                              totalLength + length + 1)
ExtractLoopNoLengthLimit(query, i, pos, name, totalLength) ==
    IF ~(i < 128 /\ pos < Len(query))
    THEN [fail |-> FALSE, panic |-> FALSE, name |-> name, pos |-> pos]
    ELSE LET length == ByteAt(query, pos)
         IN  IF length = Panic
             THEN [fail |-> TRUE, panic |-> TRUE, name |-> name, pos |-> pos]
             ELSE IF length = 0
             THEN [fail |-> FALSE, panic |-> FALSE, name |-> name, pos |-> pos]
             ELSE IF And0xC0(length) = 192
             THEN [fail |-> TRUE, panic |-> FALSE, name |-> name, pos |-> pos]
             ELSE IF length > 63
             THEN [fail |-> TRUE, panic |-> FALSE, name |-> name, pos |-> pos]
             ELSE IF pos + 1 + length > Len(query)
             THEN [fail |-> TRUE, panic |-> FALSE, name |-> name, pos |-> pos + 1]
             ELSE ExtractLoop(query, i + 1, pos + 1 + length,
                              Append(name, Slice(query, pos + 1, pos + 1 + length)),
                              totalLength + length + 1)
ExtractLoop(query, i, pos, name, totalLength) ==
    IF ~(i < 128 /\ pos < Len(query))
    THEN [fail |-> FALSE, panic |-> FALSE, name |-> name, pos |-> pos]
    ELSE LET length == ByteAt(query, pos)
         IN  IF length = Panic
             THEN [fail |-> TRUE, panic |-> TRUE, name |-> name, pos |-> pos]
             ELSE IF length = 0
             THEN [fail |-> FALSE, panic |-> FALSE, name |-> name, pos |-> pos]
             ELSE IF And0xC0(length) = 192
             THEN [fail |-> TRUE, panic |-> FALSE, name |-> name, pos |-> pos]
             ELSE IF length > 63
             THEN [fail |-> TRUE, panic |-> FALSE, name |-> name, pos |-> pos]
             ELSE IF pos + 1 + length > Len(query)
             THEN [fail |-> TRUE, panic |-> FALSE, name |-> name, pos |-> pos + 1]
             ELSE IF totalLength + length + 1 > 255
             THEN [fail |-> TRUE, panic |-> FALSE, name |-> name, pos |-> pos + 1]
             ELSE ExtractLoop(query, i + 1, pos + 1 + length,
                              Append(name, Slice(query, pos + 1, pos + 1 + length)),
                              totalLength + length + 1)

\* part_002:93-148  extractQuestion: the dotted name, "" when it gives up
extractQuestion(query) ==
    IF Len(query) < 12
    THEN [panic |-> FALSE, s |-> <<>>]
    ELSE LET w == ExtractLoop(query, 0, 12, <<>>, 0)
         IN  IF w.fail THEN [panic |-> w.panic, s |-> <<>>]
             ELSE IF w.pos + 4 > Len(query) THEN [panic |-> FALSE, s |-> <<>>]
             ELSE [panic |-> FALSE, s |-> Join(w.name)]

\* part_002:193-209  buildTXTData: text cut into strings of at most 255
\* bytes, each behind its length byte
RECURSIVE buildTXTDataChunks256(_)
buildTXTDataChunks256(text) ==
    IF Len(text) > 0
    THEN LET chunkLen == IF Len(text) > 256 THEN 256 ELSE Len(text)
         IN  <<chunkLen % 256>> \o Slice(text, 0, chunkLen)
                \o buildTXTDataChunks256(Slice(text, chunkLen, Len(text)))
    ELSE <<>>
RECURSIVE buildTXTData(_)
buildTXTData(text) ==
    IF Len(text) > 0
    THEN LET chunkLen == IF Len(text) > 255 THEN 255 ELSE Len(text)
         IN  <<chunkLen>> \o Slice(text, 0, chunkLen)
                \o buildTXTData(Slice(text, chunkLen, Len(text)))
    ELSE <<>>

\* part_002:162-169  the offset buildDNSResponse skips to: past the first
\* zero byte at or after offset 12 and the 4 bytes behind it
RECURSIVE SkipQuestion(_, _)
SkipQuestion(resp, pos) ==
    IF pos < Len(resp)
    THEN IF ByteAt(resp, pos) = 0 THEN pos + 5 ELSE SkipQuestion(resp, pos + 1)
    ELSE pos

\* part_002:150-191  buildDNSResponse: the query with its flag bytes and
\* answer count overwritten, and one TXT record appended
buildDNSResponseNoCopy(query, answer) ==
    LET zeros   == [i \in 1 .. Len(query) |-> 0]
        resp    == WithByte(WithByte(WithByte(zeros, 2, 129), 3, 128), 7, 1)
        txtData == buildTXTData(answer)
    IN  [panic |-> FALSE,
         resp  |-> resp \o <<192, 12>> \o <<0, 16, 0, 1>> \o <<0, 0, 0, 0>>
                     \o <<(Len(txtData) \div 256) % 256, Len(txtData) % 256>>
                     \o txtData]
buildDNSResponse(query, answer) ==
    IF Len(query) < 8
    THEN [panic |-> TRUE, resp |-> <<>>]
    ELSE LET resp    == WithByte(WithByte(WithByte(query, 2, 129), 3, 128), 7, 1)
             pos     == SkipQuestion(resp, 12)
             txtData == buildTXTData(answer)
         IN  [panic |-> FALSE,
              resp  |-> resp \o <<192, 12>> \o <<0, 16, 0, 1>> \o <<0, 0, 0, 0>>
                          \o <<(Len(txtData) \div 256) % 256, Len(txtData) % 256>>
                          \o txtData]

\* a text of n bytes, the letters a..z in turn
Text(n) == [i \in 1 .. n |-> 97 + ((i - 1) % 26)]

\* what getLLMResponse(ctx, prompt) may return: a text ("4", nothing, a
\* long one), or an error
LLMResults ==
    { [err |-> FALSE, text |-> <<52>>],
      [err |-> FALSE, text |-> <<>>],
      [err |-> FALSE, text |-> Text(MaxAnswer)],
      [err |-> TRUE,  text |-> <<120>>] }

\* the handler has not run
DnsIdle ==
    [handled |-> FALSE, gate |-> "none", decoded |-> FALSE, llm |-> 0,
     prompt |-> <<>>, response |-> <<>>, assembled |-> <<>>,
     sent |-> FALSE, reply |-> <<>>, panic |-> FALSE, err |-> FALSE]

\* part_002:84-88  the reply cut to 512 bytes, with the TC bit set
TruncatedFrom512(reply) ==
    IF Len(reply) >= 512
    THEN WithByte(Slice(reply, 0, 512), 2, Or0x02(ByteAt(reply, 2)))
    ELSE reply
Truncated(reply) ==
    IF Len(reply) > 512
    THEN WithByte(Slice(reply, 0, 512), 2, Or0x02(ByteAt(reply, 2)))
    ELSE reply

\* part_002:60-90  handleQuery from the decoding of the question on
Answer(query, res) ==
    LET q == extractQuestion(query)
    IN  IF q.panic
        THEN [DnsIdle EXCEPT !.handled = TRUE, !.gate = "allowed", !.panic = TRUE]
        ELSE IF q.s = <<>>
        THEN [DnsIdle EXCEPT !.handled = TRUE, !.gate = "allowed"]
        ELSE LET prompt   == DashToSpace(TrimSuffix(TrimSuffix(q.s, DotChAt), Dot))
                 response == IF res.err THEN ErrorPrefix \o res.text ELSE res.text
                 built    == buildDNSResponse(query, response)
             IN  IF built.panic
                 THEN [DnsIdle EXCEPT !.handled = TRUE, !.gate = "allowed",
                                      !.decoded = TRUE, !.llm = 1,
                                      !.prompt = prompt, !.response = response,
                                      !.panic = TRUE, !.err = res.err]
                 ELSE [handled |-> TRUE, gate |-> "allowed", decoded |-> TRUE,
                       llm |-> 1, prompt |-> prompt, response |-> response,
                       assembled |-> built.resp, sent |-> TRUE,
                       reply |-> Truncated(built.resp), panic |-> FALSE,
                       err |-> res.err]

\* part_002:55-90  handleQuery once the datagram is admitted
HandleAdmittedAnswersResponses(query, res) == Answer(query, res)
HandleAdmitted(query, res) ==
    IF ByteAt(query, 2) = Panic
    THEN [DnsIdle EXCEPT !.handled = TRUE, !.gate = "allowed", !.panic = TRUE]
    ELSE IF And0x80(ByteAt(query, 2)) # 0
    THEN [DnsIdle EXCEPT !.handled = TRUE, !.gate = "allowed"]
    ELSE Answer(query, res)

\* part_002:44-91  handleQuery(conn, addr, query) at time t, with what the
\* generation collaborator would return: what the handler did, and the
\* admission table it leaves
handleQueryIgnoresGate(tbl, since, addr, query, res, t) ==
    LET a == RateLimitAllow(tbl, since, addr, t)
    IN  [out |-> HandleAdmitted(query, res),
         ok |-> a.ok, ip |-> a.ip, limiters |-> a.limiters, lastClean |-> a.lastClean,
         called |-> TRUE]
handleQuery(tbl, since, addr, query, res, t) ==
    IF Len(query) < 12
    THEN [out |-> [DnsIdle EXCEPT !.handled = TRUE],
          ok |-> FALSE, ip |-> <<>>, limiters |-> tbl, lastClean |-> since,
          called |-> FALSE]
    ELSE LET a == RateLimitAllow(tbl, since, addr, t)
         IN  [out |-> IF ~a.ok
                      THEN [DnsIdle EXCEPT !.handled = TRUE, !.gate = "refused"]
                      ELSE HandleAdmitted(query, res),
              ok |-> a.ok, ip |-> a.ip, limiters |-> a.limiters,
              lastClean |-> a.lastClean, called |-> TRUE]


-----------------------------------------------------------------------------
(* The HTTP handlers: src/http.go *)

\* The requests the handlers tell apart.  accept is the set of media types
\* the Accept header names (strings.Contains on the header is membership),
\* ua the kind of User-Agent, hasQuery whether a query comes out of the q
\* parameter, the body or the path, badForm whether ParseForm or the body
\* read fails.
MediaTypes == {"application/json", "text/html", "text/event-stream"}

RootRequests ==
    [method : {"GET", "POST"}, badForm : BOOLEAN, hasQuery : BOOLEAN,
     hasHistory : BOOLEAN, accept : SUBSET MediaTypes,
     ua : {"browser", "curl", "other"}, llmErr : BOOLEAN]

\* err: the generation function returned an error to the handler
HttpIdle ==
    [handled |-> FALSE, gate |-> "none", status |-> 0, llm |-> 0, kind |-> "none",
     err |-> FALSE]

HttpDone(gate, status, llm, kind) ==
    [handled |-> TRUE, gate |-> gate, status |-> status, llm |-> llm, kind |-> kind,
     err |-> FALSE]

\* http.go:218-222  LLM(promptToUse, nil) returned err: content is
\* err.Error(), the reply is written as any other
Failed(out) == [out EXCEPT !.err = TRUE]

\* http.go:83-297  handleRoot once the request is admitted
RootAdmitted(r) ==
    LET wantsJSON   == "application/json" \in r.accept
        wantsHTML   == r.ua = "browser" \/ "text/html" \in r.accept
        wantsStream == "text/event-stream" \in r.accept
        isCurl      == r.ua = "curl" /\ ~wantsHTML /\ ~wantsJSON /\ ~wantsStream
    IN  IF r.method = "POST" /\ r.badForm
        THEN HttpDone("allowed", 400, 0, "error")
        ELSE IF r.hasQuery /\ wantsHTML /\ r.accept # {"application/json"}
        THEN HttpDone("allowed", 200, 1, "html-stream")
        ELSE IF r.hasQuery /\ isCurl
        THEN HttpDone("allowed", 200, 1, "text-stream")
        ELSE IF r.hasQuery /\ wantsStream
        THEN HttpDone("allowed", 200, 2, "sse")
        ELSE IF wantsJSON /\ r.hasQuery
        THEN IF r.llmErr THEN Failed(HttpDone("allowed", 200, 1, "json"))
             ELSE HttpDone("allowed", 200, 1, "json")
        ELSE IF wantsHTML /\ ~r.hasQuery
        THEN HttpDone("allowed", 200, 0, "html")
        ELSE IF r.hasQuery
        THEN IF r.llmErr THEN Failed(HttpDone("allowed", 200, 1, "text"))
             ELSE HttpDone("allowed", 200, 1, "text")
        ELSE HttpDone("allowed", 200, 0, "text")

\* http.go:76-81  handleRoot(w, r) for a request from addr at time t
handleRoot(tbl, since, addr, r, t) ==
    LET a == RateLimitAllow(tbl, since, addr, t)
    IN  [out |-> IF ~a.ok
                 THEN HttpDone("refused", 429, 0, "error")
                 ELSE RootAdmitted(r),
         ok |-> a.ok, ip |-> a.ip, limiters |-> a.limiters, lastClean |-> a.lastClean]

ChatRequests ==
    [method : {"OPTIONS", "GET", "POST"}, badJSON : BOOLEAN, stream : BOOLEAN,
     llmErr : BOOLEAN]

\* http.go:326-419  handleChatCompletions(w, r) for a request from addr
handleChatCompletions(tbl, since, addr, r, t) ==
    IF r.method = "OPTIONS"
    THEN [out |-> HttpDone("none", 200, 0, "options"),
          called |-> FALSE, ok |-> FALSE, ip |-> <<>>,
          limiters |-> tbl, lastClean |-> since]
    ELSE LET a == RateLimitAllow(tbl, since, addr, t)
         IN  [out |-> IF ~a.ok THEN HttpDone("refused", 429, 0, "error")
                      ELSE IF r.method # "POST" THEN HttpDone("allowed", 405, 0, "error")
                      ELSE IF r.badJSON THEN HttpDone("allowed", 400, 0, "error")
                      ELSE IF r.stream THEN HttpDone("allowed", 200, 1, "sse")
                      ELSE IF r.llmErr THEN Failed(HttpDone("allowed", 500, 1, "error"))
                      ELSE HttpDone("allowed", 200, 1, "json"),
              called |-> TRUE, ok |-> a.ok, ip |-> a.ip,
              limiters |-> a.limiters, lastClean |-> a.lastClean]

\* openai.go:54-138  OpenAIServer.handleChatCompletions(w, r): no call of
\* rateLimitAllow; the streamed reply is begun with status 200 whether or
\* not getLLMResponseStream returns an error
OpenAIChatCompletions(r) ==
    IF r.method # "POST" THEN HttpDone("none", 405, 0, "error")
    ELSE IF r.badJSON THEN HttpDone("none", 400, 0, "error")
    ELSE IF r.stream THEN HttpDone("none", 200, 1, "openai-sse")
    ELSE IF r.llmErr THEN Failed(HttpDone("none", 500, 1, "error"))
    ELSE HttpDone("none", 200, 1, "openai-json")

-----------------------------------------------------------------------------
(* The SSH connection handler: src/unnamed/part_005 *)

\* What a connection brings: whether its handshake succeeds, how many session
\* channels it opens and how many prompt lines each session submits.
SshConnections == [handshake : BOOLEAN, sessions : 0 .. 1, lines : 0 .. 1]

SshIdle ==
    [handled |-> FALSE, gate |-> "none", notice |-> FALSE, handshake |-> FALSE,
     sessions |-> 0, llm |-> 0, closed |-> FALSE]

\* part_005:475-509  handleConnection(netConn, config) for a connection from
\* addr at time t: the connection is closed when the handler returns
handleConnection(tbl, since, addr, c, t) ==
    LET a == RateLimitAllow(tbl, since, addr, t)
    IN  [out |-> IF ~a.ok
                 THEN [SshIdle EXCEPT !.handled = TRUE, !.gate = "refused",
                                      !.notice = TRUE, !.closed = TRUE]
                 ELSE IF ~c.handshake
                 THEN [SshIdle EXCEPT !.handled = TRUE, !.gate = "allowed",
                                      !.closed = TRUE]
                 ELSE [handled |-> TRUE, gate |-> "allowed", notice |-> FALSE,
                       handshake |-> TRUE, sessions |-> c.sessions,
                       llm |-> c.sessions * c.lines, closed |-> TRUE],
         ok |-> a.ok, ip |-> a.ip, limiters |-> a.limiters, lastClean |-> a.lastClean]

-----------------------------------------------------------------------------
(* The stream coordinator of handleDNS: src/unnamed/part_001 *)

\* part_001:75, 91-95  the maximum accumulated length, and what is kept of
\* a longer text
Limit == 500
KeepsLimit == 250 * 2
Keep == 497

\* "Request timed out", "... (incomplete)" and "..."
RequestTimedOut ==
    <<82, 101, 113, 117, 101, 115, 116, 32, 116, 105, 109, 101, 100, 32, 111, 117, 116>>
IncompleteIsEllipsis == <<46, 46, 46>>
Incomplete ==
    <<46, 46, 46, 32, 40, 105, 110, 99, 111, 109, 112, 108, 101, 116, 101, 41>>
Ellipsis == <<46, 46, 46>>

\* part_001:79-83  what the deadline branch leaves in the builder
OnDeadlineTextAlwaysMarks(response, channelClosed) == response \o Incomplete
OnDeadlineText(response, channelClosed) ==
    IF Len(response) = 0 THEN RequestTimedOut
    ELSE IF ~channelClosed THEN response \o Incomplete
    ELSE response

\* part_001:90-96  finalResponse
FinalizeNoCut(response, channelClosed) == response
Finalize(response, channelClosed) ==
    IF Len(response) > Limit
    THEN Slice(response, 0, Keep) \o Ellipsis
    ELSE IF Len(response) = Limit /\ ~channelClosed
    THEN Slice(response, 0, Keep) \o Ellipsis
    ELSE response

\* part_001:100-107  txtStrings: finalResponse cut into strings of at most
\* 255 bytes
RECURSIVE SplitFrom(_, _)
SplitFrom(finalResponse, i) ==
    IF i < Len(finalResponse)
    THEN LET end == IF i + 255 > Len(finalResponse) THEN Len(finalResponse) ELSE i + 255
         IN  <<Slice(finalResponse, i, end)>> \o SplitFrom(finalResponse, i + 255)
    ELSE <<>>

txtStrings(finalResponse) == SplitFrom(finalResponse, 0)

\* the handler has not reached the loop
CoordIdle ==
    [pc |-> "idle", response |-> <<>>, channelClosed |-> FALSE,
     streamClosed |-> FALSE, timer |-> "none", total |-> 0, exit |-> "none",
     finalResponse |-> <<>>, txt |-> <<>>, replies |-> 0, task |-> "none"]

\* part_001:88-121  from the label respond on: the final text, its TXT
\* strings, and the one message written
Respond(c, response, channelClosed, exit) ==
    LET finalResponse == Finalize(response, channelClosed)
    IN  [c EXCEPT !.pc = "done", !.response = response,
                  !.channelClosed = channelClosed, !.exit = exit,
                  !.finalResponse = finalResponse,
                  !.txt = txtStrings(finalResponse),
                  !.replies = @ + 1]

\* no text has been handed to an encoder
CodecIdle == [stage |-> "idle", text |-> <<>>, data |-> <<>>, strings |-> <<>>]

-----------------------------------------------------------------------------
(* The SSH line editor: handleSession of src/unnamed/part_005 *)

\* part_005:714-717, 734, 736, 758, 769  what the handler writes: the
\* welcome lines and "> ", "^C\r\n", "\r\n", "\r\n> " and "\b \b"
Welcome ==
    << <<87, 101, 108, 99, 111, 109, 101, 32, 116, 111, 32, 99, 104, 46, 97, 116, 13, 10>>,
       <<84, 121, 112, 101, 32, 121, 111, 117, 114, 32, 109, 101, 115, 115, 97, 103, 101, 32, 97, 110, 100, 32, 112, 114, 101, 115, 115, 32, 69, 110, 116, 101, 114, 46, 13, 10>>,
       <<69, 120, 105, 116, 58, 32, 116, 121, 112, 101, 32, 39, 101, 120, 105, 116, 39, 44, 32, 67, 116, 114, 108, 43, 67, 44, 32, 111, 114, 32, 67, 116, 114, 108, 43, 68, 13, 10>>,
       <<62, 32>> >>
CtrlCEcho == <<94, 67, 13, 10>>
NewlineEcho == <<13, 10>>
PromptMarker == <<13, 10, 62, 32>>
Erase == <<8, 32, 8>>
ExitWord == <<101, 120, 105, 116>>

\* U+FFFD, what a byte that starts no valid UTF-8 sequence decodes to
RuneError == 65533

IsCont(b) == b >= 128 /\ b <= 191

\* unicode/utf8 DecodeRuneInString on the bytes of str from offset i: the
\* codepoint and the number of bytes it takes
DecodeAt(str, i) ==
    LET n  == Len(str) - i
        b0 == str[i + 1]
        b1 == IF n >= 2 THEN str[i + 2] ELSE 0
        b2 == IF n >= 3 THEN str[i + 3] ELSE 0
        b3 == IF n >= 4 THEN str[i + 4] ELSE 0
        lo == IF b0 = 224 THEN 160 ELSE IF b0 = 240 THEN 144 ELSE 128
        hi == IF b0 = 237 THEN 159 ELSE IF b0 = 244 THEN 143 ELSE 191
        bad == [r |-> RuneError, size |-> 1]
    IN  IF b0 < 128 THEN [r |-> b0, size |-> 1]
        ELSE IF b0 >= 194 /\ b0 <= 223
        THEN IF n >= 2 /\ IsCont(b1)
             THEN [r |-> (b0 % 32) * 64 + (b1 % 64), size |-> 2]
             ELSE bad
        ELSE IF b0 >= 224 /\ b0 <= 239
        THEN IF n >= 3 /\ b1 >= lo /\ b1 <= hi /\ IsCont(b2)
             THEN [r |-> (b0 % 16) * 4096 + (b1 % 64) * 64 + (b2 % 64), size |-> 3]
             ELSE bad
        ELSE IF b0 >= 240 /\ b0 <= 244
        THEN IF n >= 4 /\ b1 >= lo /\ b1 <= hi /\ IsCont(b2) /\ IsCont(b3)
             THEN [r |-> (b0 % 8) * 262144 + (b1 % 64) * 4096 + (b2 % 64) * 64
                         + (b3 % 64),
                   size |-> 4]
             ELSE bad
        ELSE bad

\* part_005:732, 764  `for _, ch := range data` and []rune(str): the
\* codepoints of a string
RECURSIVE RunesFrom(_, _)
RunesFrom(str, i) ==
    IF i >= Len(str) THEN <<>>
    ELSE LET d == DecodeAt(str, i)
         IN  <<d.r>> \o RunesFrom(str, i + d.size)

Runes(str) == RunesFrom(str, 0)

\* part_005:774  input.WriteRune(ch): the UTF-8 bytes of a codepoint
EncodeRune(r) ==
    IF r < 128 THEN <<r>>
    ELSE IF r < 2048 THEN <<192 + (r \div 64), 128 + (r % 64)>>
    ELSE IF (r >= 55296 /\ r <= 57343) \/ r > 1114111 THEN <<239, 191, 189>>
    ELSE IF r < 65536
    THEN <<224 + (r \div 4096), 128 + ((r \div 64) % 64), 128 + (r % 64)>>
    ELSE <<240 + (r \div 262144), 128 + ((r \div 4096) % 64),
           128 + ((r \div 64) % 64), 128 + (r % 64)>>

\* part_005:766  string(runes)
RECURSIVE EncodeRunes(_)
EncodeRunes(runes) ==
    IF runes = <<>> THEN <<>>
    ELSE EncodeRune(runes[1]) \o EncodeRunes(Tail(runes))

\* unicode.IsSpace
IsSpace(r) ==
    \/ r \in {9, 10, 11, 12, 13, 32, 133, 160, 5760, 8232, 8233, 8239, 8287, 12288}
    \/ (r >= 8192 /\ r <= 8202)

\* part_005:738  strings.TrimSpace
RECURSIVE TrimLeft(_)
TrimLeft(runes) ==
    IF runes # <<>> /\ IsSpace(runes[1]) THEN TrimLeft(Tail(runes)) ELSE runes

RECURSIVE TrimRight(_)
TrimRight(runes) ==
    IF runes # <<>> /\ IsSpace(runes[Len(runes)])
    THEN TrimRight(SubSeq(runes, 1, Len(runes) - 1))
    ELSE runes

TrimSpace(str) == EncodeRunes(TrimRight(TrimLeft(Runes(str))))

\* part_005:761-770  backspace or delete on the line buffer: the buffer
\* left and what is written
BackspaceDropsByte(input) ==
    IF Len(input) > 0
    THEN [input |-> SubSeq(input, 1, Len(input) - 1), wrote |-> <<Erase>>]
    ELSE [input |-> input, wrote |-> <<>>]
Backspace(input) ==
    IF Len(input) > 0
    THEN LET runes == Runes(input)
         IN  [input |-> EncodeRunes(SubSeq(runes, 1, Len(runes) - 1)),
              wrote |-> <<Erase>>]
    ELSE [input |-> input, wrote |-> <<>>]

\* part_005:738-739  the line is taken out of the buffer: the prompt and the
\* buffer left
TakeLineKeepsBuffer(input) == [query |-> TrimSpace(input), input |-> input]
TakeLine(input) == [query |-> TrimSpace(input), input |-> <<>>]

-----------------------------------------------------------------------------
(* Streamed HTTP responses: src/http.go *)

\* "data: ", "\n\n" and "[DONE]"
DataPrefix == <<100, 97, 116, 97, 58, 32>>
FrameEnd == <<10, 10>>
DoneText == <<91, 68, 79, 78, 69, 93>>

\* encoding/json's escaping of a string: \n, " and \ behind a backslash
RECURSIVE JsonEscape(_)
JsonEscape(str) ==
    IF str = <<>> THEN <<>>
    ELSE (CASE str[1] = 10 -> <<92, 110>>
            [] str[1] = 34 -> <<92, 34>>
            [] str[1] = 92 -> <<92, 92>>
            [] OTHER -> <<str[1]>>) \o JsonEscape(Tail(str))

\* http.go:375-390  the chat.completion.chunk object of a fragment, reduced
\* to {"content":"..."}
ChunkJSON(chunk) ==
    <<123, 34, 99, 34, 58, 34>> \o JsonEscape(chunk) \o <<34, 125>>

\* http.go:269, 390  what a streaming loop writes for one fragment
RootFrame(chunk) == DataPrefix \o chunk \o FrameEnd
ChatFrame(chunk) == DataPrefix \o ChunkJSON(chunk) \o FrameEnd

\* http.go:272, 393  the final frame
DoneFrame == DataPrefix \o DoneText \o FrameEnd

\* the streamed responses of http.go: HTML and curl streaming and SSE of
\* handleRoot, SSE of handleChatCompletions
StreamKinds == {"html", "curl", "sse-root", "sse-chat"}

\* no streamed response has started
HsIdle ==
    [kind |-> "none", pc |-> "idle", task |-> "none", chClosed |-> FALSE,
     clientGone |-> FALSE, fragments |-> <<>>, body |-> <<>>, response |-> <<>>,
     writeFailed |-> FALSE]

\* no session has started.  inbox: the packets the client has sent and
\* channel.Read has not returned yet; data: the codepoints of the last read
\* that the range has not reached; input: the bytes of the line buffer;
\* wrote: what the last step of the handler wrote to the channel; script and
\* shown: the fragments the generation in progress hands over and those
\* already written; query and prompts: the last prompt submitted and how many
\* were.  sent counts the client's packets; typed, before and last remember
\* the codepoints appended since the last submission, and the line buffer
\* before the codepoint interpreted last and that codepoint.
SessIdle ==
    [pc |-> "idle", inbox |-> <<>>, data |-> <<>>, input |-> <<>>,
     wrote |-> <<>>, script |-> <<>>, shown |-> <<>>, query |-> <<>>,
     prompts |-> 0, hungUp |-> FALSE, end |-> "none",
     sent |-> 0, typed |-> {}, before |-> <<>>, last |-> 0]

-----------------------------------------------------------------------------
(* The connection slots of the SSH server: StartSSHServer of part_005 *)

\* part_005:641  sem := make(chan struct{}, 100)
Slots == 100

\* the accept loop has not started.  sem: the tokens in the channel;
\* handling: the goroutines that have not returned from handleConnection;
\* releasing: those that have and have not taken their token back; last and
\* seen: what the loop did with the last connection and the tokens it found;
\* exit: the way the last handleConnection that returned took
PoolIdle ==
    [pc |-> "idle", sem |-> 0, handling |-> 0, releasing |-> 0,
     last |-> "none", seen |-> 0, exit |-> "none"]

\* part_005:650-660  the select: the send when the channel has room, the
\* default branch when it has none
SelectAlwaysSends(sem) == "send"
Select(sem) == IF sem < Slots THEN "send" ELSE "default"

\* part_005:665-668, 672-675, 681-695  the returns of handleConnection: the
\* address is refused by rateLimitAllow, ssh.NewServerConn fails, or the
\* range over chans ends with the connection
ExitPaths == {"rate-limit", "handshake", "closed"}

\* part_005:652-655  `defer func() { <-sem }()` is registered before
\* handleConnection is called: it runs whichever return is taken
ReleasesOnCloseOnly(path) == path = "closed"
ReleasesSlot(path) == path \in ExitPaths

-----------------------------------------------------------------------------
(* The conversation history of handleRoot: src/http.go.  Texts are taken *)
(* by their lengths in bytes.                                            *)

\* http.go:96  the size a history is cut to
HistoryLimit == 65536

\* no request with a history has been handled.  incoming, query, answer:
\* the lengths of the h field, of the query and of the generated answer;
\* history: the length of history after line 98; sent: the length of the
\* history the response carries (the h field of the form, or the plain text)
HistIdle ==
    [pc |-> "idle", method |-> "none", format |-> "none", incoming |-> 0,
     query |-> 0, answer |-> 0, history |-> 0, path |-> "none", sent |-> 0]

\* http.go:95-98  history := r.FormValue("h"), cut to its last 65536 bytes
CutHistory(h) == IF h > HistoryLimit THEN HistoryLimit ELSE h

\* http.go:183, 229  fmt.Sprintf("Q: %s\nA: %s\n\n", query, response)
NewExchange(q, a) == 3 + q + 4 + a + 2

\* http.go:183  finalHistory of the HTML streaming branch
FinalHistory(history, q, a) == history + NewExchange(q, a)

\* http.go:229-246  content of the branch that does not stream
Content(history, q, a) ==
    LET newExchange == NewExchange(q, a)
        content     == history + newExchange
    IN  IF content > HistoryLimit
        THEN IF newExchange > HistoryLimit
             THEN HistoryLimit
             ELSE LET maxHistory == HistoryLimit - newExchange
                  IN  IF history > maxHistory THEN maxHistory + newExchange
                      ELSE content
        ELSE content

\* http.go:85-297  handleRoot on an admitted request whose form parses and
\* generation succeeds: format is what the Accept and User-Agent headers
\* select ("html": wantsHTML and Accept is not exactly application/json;
\* "curl": isCurl; "json": wantsJSON; "text": none of them)
RootHistory(r) ==
    LET history == IF r.method = "POST" THEN CutHistory(r.incoming) ELSE 0
        done == [pc |-> "done", method |-> r.method, format |-> r.format,
                 incoming |-> r.incoming, query |-> r.query, answer |-> r.answer,
                 history |-> history, path |-> "none", sent |-> 0]
    IN  IF r.query > 0
        THEN IF r.format = "html"
             THEN [done EXCEPT !.path = "html-stream",
                               !.sent = FinalHistory(history, r.query, r.answer)]
             ELSE IF r.format = "curl"
             THEN [done EXCEPT !.path = "text-stream"]
             ELSE IF r.format = "json"
             THEN [done EXCEPT !.path = "json"]
             ELSE [done EXCEPT !.path = "text",
                               !.sent = Content(history, r.query, r.answer)]
        ELSE IF r.format = "html"
        THEN [done EXCEPT !.path = "html", !.sent = history]
        ELSE [done EXCEPT !.path = "text", !.sent = history]

\* the reference run has made no call
RefIdle == [limiters |-> [k \in {} |-> NewLimiter], ok |-> FALSE]

-----------------------------------------------------------------------------
(* rateLimitAllow called from several goroutines: src/util.go, statement  *)
(* by statement.  The clock stands still while the calls interleave, so a *)
(* bucket is taken by the tokens it holds at that time.                   *)

\* the goroutines that call, and the keys they call for
Procs == 1 .. NumProcs
ConcKeys == { <<"a">>, <<"b">> }

\* a goroutine that is in no call
ProcIdle ==
    [pc |-> "idle", key |-> <<>>, todo |-> {}, victim |-> <<>>, held |-> 0,
     ok |-> FALSE]

\* no call has been made.  due: more than an hour has passed since
\* lastClean; table: limiters, key -> bucket; tokens: the whole tokens of
\* each bucket ever made; granted: per key, the calls that returned true;
\* calls: the calls started
ConcIdle ==
    [pc |-> "idle", due |-> FALSE, table |-> [k \in {} |-> 0], tokens |-> <<>>,
     procs |-> [p \in Procs |-> ProcIdle], granted |-> [k \in ConcKeys |-> 0],
     calls |-> 0]

\* util.go:36  limiters.LoadOrStore(ip, rate.NewLimiter(100.0/60, 10)) on
\* the table and the buckets: the bucket of the key, made and stored when
\* the table has none, in one atomic step
ConcLoadOrStore(c, key) ==
    IF key \in DOMAIN c.table
    THEN [held |-> c.table[key], table |-> c.table, tokens |-> c.tokens]
    ELSE [held |-> Len(c.tokens) + 1,
          table |-> [k \in DOMAIN c.table \cup {key} |->
                        IF k = key THEN Len(c.tokens) + 1 ELSE c.table[k]],
          tokens |-> Append(c.tokens, Burst)]

-----------------------------------------------------------------------------
(* The read loop of DNSServer.Start and the handlers it starts:           *)
(* src/unnamed/part_002.  A datagram is its transaction ID followed by    *)
(* the bytes of its question.                                             *)

\* part_002:32  buf := make([]byte, 512), all zero
NewBuf == [i \in 1 .. BufLen |-> 0]

\* the read loop has not started.  buf: the one buffer of the loop; cur and
\* copied: the datagram ReadFromUDP is writing into buf and how many of its
\* bytes are written; handlers: per goroutine started, the datagram it was
\* started for, the length n of its slice buf[:n], the question it decoded
\* and the ID and question it copied into its reply
UdpIdle ==
    [pc |-> "idle", buf |-> <<>>, cur |-> <<>>, copied |-> 0, handlers |-> <<>>]

\* part_002:40  go s.handleQuery(conn, clientAddr, buf[:n])
NewHandler(d) ==
    [for |-> d, n |-> Len(d), pc |-> "started", question |-> <<>>,
     id |-> 0, copied |-> <<>>]

\* part_002:44, 60  what a handler finds in query, its slice of buf: the
\* first n bytes of buf as they are now
Query(buf, h) == SubSeq(buf, 1, h.n)

-----------------------------------------------------------------------------
(* States and steps *)

InitStream ==
    /\ codec = CodecIdle
    /\ coord = CoordIdle

InitSessions ==
    /\ hs = HsIdle
    /\ sess = SessIdle
    /\ pool = PoolIdle
    /\ hist = HistIdle
    /\ conc = ConcIdle
    /\ udp = UdpIdle
    /\ ref = RefIdle

InitAdapters ==
    /\ wire = <<>>
    /\ compose = [stage |-> "idle", labels |-> 0, tail |-> 0]
    /\ dnsOut = DnsIdle
    /\ httpOut = HttpIdle
    /\ sshOut = SshIdle

Client == <<"a", ":", "1">>

NoStreak == [started |-> FALSE, full |-> FALSE, res |-> <<>>]

Keys == { ClientKey(a) : a \in Addrs }

InitLimiter ==
    /\ now = 0
    /\ limiters = [k \in {} |-> NewLimiter]
    /\ lastClean = 0
    /\ ncalls = 0
    /\ ret = [ip |-> <<>>, ok |-> FALSE]
    /\ granted = 0
    /\ ticks = 0
    /\ streak = [k \in Keys |-> NoStreak]
    /\ InitAdapters
    /\ InitStream
    /\ InitSessions

\* One call of rateLimitAllow(addr), with its bookkeeping
DoAllow(addr) ==
    LET r  == RateLimitAllow(limiters, lastClean, addr, now)
        s  == streak[r.ip]
    IN  /\ limiters' = r.limiters
        /\ lastClean' = r.lastClean
        /\ ncalls' = ncalls + 1
        /\ ret' = [ip |-> r.ip, ok |-> r.ok]
        /\ streak' = [streak EXCEPT ![r.ip] =
                        IF s.started
                        THEN [s EXCEPT !.res = Append(s.res, r.ok)]
                        ELSE [started |-> TRUE,
                              full |-> Available(limiters, r.ip, now) = Full,
                              res |-> <<r.ok>>]]

\* a request from addr reaches rateLimitAllow
Allow(addr) ==
    /\ ncalls < MaxCalls
    /\ DoAllow(addr)
    /\ UNCHANGED <<now, ticks, granted>>
    /\ UNCHANGED adapterVars

Delays == {1, Hour}

\* the clock advances by d seconds
Tick(d) ==
    /\ ticks < MaxTicks
    /\ now' = now + d
    /\ ticks' = ticks + 1
    /\ streak' = [k \in Keys |-> NoStreak]
    /\ UNCHANGED <<limiters, lastClean, ncalls, ret, granted>>
    /\ UNCHANGED adapterVars

NextLimiter ==
    \/ \E addr \in Addrs : Allow(addr)
    \/ \E d \in Delays : Tick(d)

SpecLimiter == InitLimiter /\ [][NextLimiter]_vars

-----------------------------------------------------------------------------
(* One client inside one window, as the rate-limit test drives it: the     *)
(* client calls again and again, at any pace, and stops at the first call  *)
(* that is refused; the clock runs from 0 to the end of the window in      *)
(* steps of WindowStep seconds.                                            *)

Window == RateDen

WindowAllow ==
    /\ ncalls < MaxWindowCalls
    /\ ncalls = 0 \/ ret.ok
    /\ LET r == RateLimitAllow(limiters, lastClean, Client, now)
       IN  /\ limiters' = r.limiters
           /\ lastClean' = r.lastClean
           /\ ncalls' = ncalls + 1
           /\ ret' = [ip |-> r.ip, ok |-> r.ok]
           /\ granted' = granted + (IF r.ok THEN 1 ELSE 0)
    /\ UNCHANGED <<now, ticks, streak>>
    /\ UNCHANGED adapterVars

WindowTick ==
    /\ now + WindowStep < Window
    /\ now' = now + WindowStep
    /\ UNCHANGED <<limiters, lastClean, ncalls, ret, granted, ticks, streak>>
    /\ UNCHANGED adapterVars

NextWindow == WindowAllow \/ WindowTick

SpecWindow == InitLimiter /\ [][NextWindow]_vars


-----------------------------------------------------------------------------
(* One inbound request.  Each behaviour follows one DNS datagram, HTTP      *)
(* request or SSH connection of one client, against an admission table     *)
(* that is either empty or holds the client's bucket as ten requests       *)
(* within the same second left it.                                         *)

Exhausted == [k \in {ClientKey(Client)} |-> [tokens |-> 0, last |-> 0]]

Init ==
    /\ now = 0
    /\ limiters \in {[k \in {} |-> NewLimiter], Exhausted}
    /\ lastClean = 0
    /\ ncalls = 0
    /\ ret = [ip |-> <<>>, ok |-> FALSE]
    /\ granted = 0
    /\ ticks = 0
    /\ streak = [k \in Keys |-> NoStreak]
    /\ InitAdapters
    /\ InitStream
    /\ InitSessions

\* the bookkeeping of a handler's call of rateLimitAllow
Gate(h) ==
    /\ limiters' = h.limiters
    /\ lastClean' = h.lastClean
    /\ ncalls' = ncalls + 1
    /\ ret' = [ip |-> h.ip, ok |-> h.ok]
    /\ granted' = granted + (IF h.ok THEN 1 ELSE 0)

\* the 12 header bytes: ID 0xABCD, the flag byte, QDCOUNT 1, ARCOUNT
Header(flags, arcount) == <<171, 205, flags, 0, 0, 1, 0, 0, 0, 0, 0, arcount>>

Headers == { Header(1, 0), Header(128, 0), Header(0, 1) }

LabelLens == {1, 63}

\* a label: its length byte and that many bytes 'a'
Label(len) == <<len>> \o [i \in 1 .. len |-> 97]

\* the bytes that may stand where the next length byte is expected: the
\* root label, length bytes with nothing behind them, a length of 64 and a
\* compression pointer
EndLens == {0, 1, 63, 64, 192}

\* the bytes behind the name, by position: QTYPE (TXT or A), QCLASS IN, and
\* one byte of whatever follows the question
TailChoices(i) ==
    CASE i = 2 -> {16, 1}
      [] i = 4 -> {1}
      [] OTHER -> {0}

\* the client starts a datagram with a header
ComposeHeader(h) ==
    /\ compose.stage = "idle"
    /\ wire' = h
    /\ compose' = [compose EXCEPT !.stage = "name"]
    /\ UNCHANGED <<dnsOut, httpOut, sshOut, codec, coord>>
    /\ UNCHANGED limiterVars
    /\ UNCHANGED sessionVars

\* names a client asks for, label by label: what-is-2-2.ch.at, the same
\* without the suffix, ch.at alone, a-.b-c.ch.at.ch.at and a name whose last
\* label ends in a dot byte
Questions ==
    { << <<119, 104, 97, 116, 45, 105, 115, 45, 50, 45, 50>>, <<99, 104>>, <<97, 116>> >>,
      << <<119, 104, 97, 116, 45, 105, 115, 45, 50, 45, 50>> >>,
      << <<99, 104>>, <<97, 116>> >>,
      << <<97, 45>>, <<98, 45, 99>>, <<99, 104>>, <<97, 116>>, <<99, 104>>, <<97, 116>> >>,
      << <<45>>, <<97, 46>> >> }

\* the wire form of the labels of a name, without the root label
RECURSIVE Labels(_)
Labels(name) ==
    IF name = <<>> THEN <<>>
    ELSE <<Len(name[1])>> \o name[1] \o Labels(Tail(name))

\* the client starts a datagram with a header and the labels of a name
ComposeQuestion(name) ==
    /\ compose.stage = "idle"
    /\ wire' = Header(1, 0) \o Labels(name)
    /\ compose' = [compose EXCEPT !.stage = "name", !.labels = MaxLabels]
    /\ UNCHANGED <<dnsOut, httpOut, sshOut, codec, coord>>
    /\ UNCHANGED limiterVars
    /\ UNCHANGED sessionVars

\* the client sends fewer than 12 bytes
ComposeShort(n) ==
    /\ compose.stage = "idle"
    /\ wire' = Slice(Header(1, 0), 0, n)
    /\ compose' = [compose EXCEPT !.stage = "tail", !.tail = MaxTail]
    /\ UNCHANGED <<dnsOut, httpOut, sshOut, codec, coord>>
    /\ UNCHANGED limiterVars
    /\ UNCHANGED sessionVars

AddLabel(len) ==
    /\ compose.stage = "name"
    /\ compose.labels < MaxLabels
    /\ wire' = wire \o Label(len)
    /\ compose' = [compose EXCEPT !.labels = @ + 1]
    /\ UNCHANGED <<dnsOut, httpOut, sshOut, codec, coord>>
    /\ UNCHANGED limiterVars
    /\ UNCHANGED sessionVars

AddEnd(b) ==
    /\ compose.stage = "name"
    /\ wire' = Append(wire, b)
    /\ compose' = [compose EXCEPT !.stage = "tail"]
    /\ UNCHANGED <<dnsOut, httpOut, sshOut, codec, coord>>
    /\ UNCHANGED limiterVars
    /\ UNCHANGED sessionVars

AddTail(b) ==
    /\ compose.stage = "tail"
    /\ compose.tail < MaxTail
    /\ b \in TailChoices(compose.tail + 1)
    /\ wire' = Append(wire, b)
    /\ compose' = [compose EXCEPT !.tail = @ + 1]
    /\ UNCHANGED <<dnsOut, httpOut, sshOut, codec, coord>>
    /\ UNCHANGED limiterVars
    /\ UNCHANGED sessionVars

\* part_002:34-40  the datagram arrives and handleQuery runs on it
Deliver(res) ==
    /\ compose.stage \in {"name", "tail"}
    /\ LET h == handleQuery(limiters, lastClean, Client, wire, res, now)
       IN  /\ dnsOut' = h.out
           /\ IF h.called THEN Gate(h)
              ELSE UNCHANGED <<limiters, lastClean, ncalls, ret, granted>>
    /\ compose' = [compose EXCEPT !.stage = "served"]
    /\ UNCHANGED <<wire, httpOut, sshOut, now, ticks, streak, codec, coord, hs, sess, pool, hist, conc, udp, ref>>

\* an HTTP request for / arrives
ServeRoot(r) ==
    /\ compose.stage = "idle"
    /\ LET h == handleRoot(limiters, lastClean, Client, r, now)
       IN  /\ httpOut' = h.out
           /\ Gate(h)
    /\ compose' = [compose EXCEPT !.stage = "served"]
    /\ UNCHANGED <<wire, dnsOut, sshOut, now, ticks, streak, codec, coord, hs, sess, pool, hist, conc, udp, ref>>

\* an HTTP request for /v1/chat/completions arrives
ServeChatCompletions(r) ==
    /\ compose.stage = "idle"
    /\ LET h == handleChatCompletions(limiters, lastClean, Client, r, now)
       IN  /\ httpOut' = h.out
           /\ IF h.called THEN Gate(h)
              ELSE UNCHANGED <<limiters, lastClean, ncalls, ret, granted>>
    /\ compose' = [compose EXCEPT !.stage = "served"]
    /\ UNCHANGED <<wire, dnsOut, sshOut, now, ticks, streak, codec, coord, hs, sess, pool, hist, conc, udp, ref>>

\* part_005:452-472  an SSH connection is accepted and handled
ServeConnection(c) ==
    /\ compose.stage = "idle"
    /\ LET h == handleConnection(limiters, lastClean, Client, c, now)
       IN  /\ sshOut' = h.out
           /\ Gate(h)
    /\ compose' = [compose EXCEPT !.stage = "served"]
    /\ UNCHANGED <<wire, dnsOut, httpOut, now, ticks, streak, codec, coord, hs, sess, pool, hist, conc, udp, ref>>

\* an HTTP request for /v1/chat/completions arrives at the OpenAI server
ServeOpenAI(r) ==
    /\ compose.stage = "idle"
    /\ httpOut' = OpenAIChatCompletions(r)
    /\ compose' = [compose EXCEPT !.stage = "served"]
    /\ UNCHANGED <<wire, dnsOut, sshOut, codec, coord, hs, sess, pool, hist, conc, udp, ref>>
    /\ UNCHANGED limiterVars

Next ==
    \/ \E h \in Headers : ComposeHeader(h)
    \/ \E name \in Questions : ComposeQuestion(name)
    \/ \E n \in {0, 11} : ComposeShort(n)
    \/ \E len \in LabelLens : AddLabel(len)
    \/ \E b \in EndLens : AddEnd(b)
    \/ \E b \in {0, 1, 16} : AddTail(b)
    \/ \E res \in LLMResults : Deliver(res)
    \/ \E r \in RootRequests : ServeRoot(r)
    \/ \E r \in ChatRequests : ServeChatCompletions(r)
    \/ \E r \in ChatRequests : ServeOpenAI(r)
    \/ \E c \in SshConnections : ServeConnection(c)

Spec == Init /\ [][Next]_vars

-----------------------------------------------------------------------------
(* One answer text through the TXT encoders *)

\* the admission table and the clock at process start
LimiterAtStart ==
    /\ now = 0
    /\ limiters = [k \in {} |-> NewLimiter]
    /\ lastClean = 0
    /\ ncalls = 0
    /\ ret = [ip |-> <<>>, ok |-> FALSE]
    /\ granted = 0
    /\ ticks = 0
    /\ streak = [k \in Keys |-> NoStreak]

InitTXT ==
    /\ LimiterAtStart
    /\ InitAdapters
    /\ codec \in { [CodecIdle EXCEPT !.stage = "text", !.text = Text(n)] : n \in 0 .. MaxText }
    /\ coord = CoordIdle
    /\ InitSessions

\* part_002:182  txtData := buildTXTData(answer)
EncodeTXT ==
    /\ codec.stage = "text"
    /\ codec' = [codec EXCEPT !.stage = "encoded", !.data = buildTXTData(codec.text)]
    /\ UNCHANGED <<wire, compose, dnsOut, httpOut, sshOut, coord>>
    /\ UNCHANGED limiterVars
    /\ UNCHANGED sessionVars

\* part_001:99-107  the text split into the strings of the dns.TXT record
SplitTXT ==
    /\ codec.stage = "text"
    /\ codec' = [codec EXCEPT !.stage = "split", !.strings = txtStrings(codec.text)]
    /\ UNCHANGED <<wire, compose, dnsOut, httpOut, sshOut, coord>>
    /\ UNCHANGED limiterVars
    /\ UNCHANGED sessionVars

NextTXT == EncodeTXT \/ SplitTXT

SpecTXT == InitTXT /\ [][NextTXT]_vars

-----------------------------------------------------------------------------
(* One TXT question through the accumulate loop of handleDNS, against a    *)
(* generation stream that hands over fragments of any size at any time,    *)
(* closes, or stays silent.                                                *)

InitCoordinator ==
    /\ LimiterAtStart
    /\ InitAdapters
    /\ InitStream
    /\ InitSessions

\* the sizes of the fragments the stream hands over
FragmentSizes == {0, 1, 3, 250, 497, MaxFragment}

\* the n bytes of the stream that follow its first `from` bytes
Fragment(from, n) == [i \in 1 .. n |-> 97 + ((from + i - 1) % 26)]

\* part_001:49-65  the channels, the generation task, the builder and the
\* 4-second timer are set up
StartQuery ==
    /\ coord.pc = "idle"
    /\ coord' = [coord EXCEPT !.pc = "select", !.timer = "armed", !.task = "running"]
    /\ UNCHANGED <<wire, compose, dnsOut, httpOut, sshOut, codec>>
    /\ UNCHANGED limiterVars
    /\ UNCHANGED sessionVars

\* part_001:69-77  a fragment of n bytes arrives on ch
RecvTwice(n) ==
    /\ coord.pc = "select"
    /\ ~coord.streamClosed
    /\ LET response == coord.response \o Fragment(coord.total, n) \o Fragment(coord.total, n)
           c        == [coord EXCEPT !.response = response, !.total = @ + n]
       IN  coord' = IF Len(response) >= Limit
                    THEN Respond(c, response, coord.channelClosed, "limit")
                    ELSE c
    /\ UNCHANGED <<wire, compose, dnsOut, httpOut, sshOut, codec>>
    /\ UNCHANGED limiterVars
    /\ UNCHANGED sessionVars
Recv(n) ==
    /\ coord.pc = "select"
    /\ ~coord.streamClosed
    /\ LET response == coord.response \o Fragment(coord.total, n)
           c        == [coord EXCEPT !.response = response, !.total = @ + n]
       IN  coord' = IF Len(response) >= Limit
                    THEN Respond(c, response, coord.channelClosed, "limit")
                    ELSE c
    /\ UNCHANGED <<wire, compose, dnsOut, httpOut, sshOut, codec>>
    /\ UNCHANGED limiterVars
    /\ UNCHANGED sessionVars

\* part_001:59  the generation function closes ch when it returns
StreamClose ==
    /\ coord.pc = "select"
    /\ ~coord.streamClosed
    /\ coord' = [coord EXCEPT !.streamClosed = TRUE, !.task = "returned"]
    /\ UNCHANGED <<wire, compose, dnsOut, httpOut, sshOut, codec>>
    /\ UNCHANGED limiterVars
    /\ UNCHANGED sessionVars

\* part_001:69-73  the receive on ch finds it closed
RecvClosed ==
    /\ coord.pc = "select"
    /\ coord.streamClosed
    /\ coord' = Respond(coord, coord.response, TRUE, "closed")
    /\ UNCHANGED <<wire, compose, dnsOut, httpOut, sshOut, codec>>
    /\ UNCHANGED limiterVars
    /\ UNCHANGED sessionVars

\* part_001:63  four seconds after the start the timer's channel delivers
DeadlineFires ==
    /\ coord.pc = "select"
    /\ coord.timer = "armed"
    /\ coord' = [coord EXCEPT !.timer = "fired"]
    /\ UNCHANGED <<wire, compose, dnsOut, httpOut, sshOut, codec>>
    /\ UNCHANGED limiterVars
    /\ UNCHANGED sessionVars

\* part_001:78-84  the select takes the deadline case
OnDeadlineStaysInLoop ==
    /\ coord.pc = "select"
    /\ coord.timer = "fired"
    /\ coord' = [coord EXCEPT !.exit = "deadline"]
    /\ UNCHANGED <<wire, compose, dnsOut, httpOut, sshOut, codec>>
    /\ UNCHANGED limiterVars
    /\ UNCHANGED sessionVars
OnDeadline ==
    /\ coord.pc = "select"
    /\ coord.timer = "fired"
    /\ coord' = Respond(coord, OnDeadlineText(coord.response, coord.channelClosed),
                        coord.channelClosed, "deadline")
    /\ UNCHANGED <<wire, compose, dnsOut, httpOut, sshOut, codec>>
    /\ UNCHANGED limiterVars
    /\ UNCHANGED sessionVars

\* part_001:52-60  the handler has left the loop (done is closed, nobody
\* receives from ch) and the generation function, which was given only ch,
\* has another fragment: its send on the unbuffered channel blocks
SendAfterExit ==
    /\ coord.pc = "done"
    /\ coord.task = "running"
    /\ coord' = [coord EXCEPT !.task = "blocked"]
    /\ UNCHANGED <<wire, compose, dnsOut, httpOut, sshOut, codec>>
    /\ UNCHANGED limiterVars
    /\ UNCHANGED sessionVars

\* part_001:52-60  the handler has left the loop and the generation
\* function returns without another fragment: it closes ch and the task ends
CloseAfterExit ==
    /\ coord.pc = "done"
    /\ coord.task = "running"
    /\ coord' = [coord EXCEPT !.streamClosed = TRUE, !.task = "returned"]
    /\ UNCHANGED <<wire, compose, dnsOut, httpOut, sshOut, codec>>
    /\ UNCHANGED limiterVars
    /\ UNCHANGED sessionVars

NextCoordinator ==
    \/ StartQuery
    \/ \E n \in FragmentSizes : Recv(n)
    \/ StreamClose
    \/ RecvClosed
    \/ DeadlineFires
    \/ OnDeadline
    \/ SendAfterExit
    \/ CloseAfterExit

\* the timer fires whatever the stream does, and a select that finds the
\* deadline case ready again and again takes it
SpecCoordinator ==
    /\ InitCoordinator
    /\ [][NextCoordinator]_vars
    /\ WF_vars(DeadlineFires)
    /\ WF_vars(OnDeadline)
    /\ WF_vars(SendAfterExit \/ CloseAfterExit)

-----------------------------------------------------------------------------
(* One streamed HTTP response: the handler ranging over ch, the generation *)
(* task handing fragments over, and a client that may go away.             *)

InitHttpStream ==
    /\ LimiterAtStart
    /\ InitAdapters
    /\ InitStream
    /\ InitSessions

\* the fragments a generation hands over: "x", "a\nb", a blank line, a quote
HttpFragments == { <<120>>, <<97, 10, 98>>, <<10, 10>>, <<34>> }

\* "</div>\n" and the footer, reduced to "</" ; "\n"
HtmlTail == <<60, 47>>
CurlTail == <<10>>

\* http.go:167-171, 199-202, 263-266, 371-372  the handler has written its
\* headers, made ch and started the generation task
HttpStart(kind) ==
    /\ hs.pc = "idle"
    /\ hs' = [hs EXCEPT !.kind = kind, !.pc = "range", !.task = "running"]
    /\ UNCHANGED <<wire, compose, dnsOut, httpOut, sshOut, codec, coord, sess, pool, hist, conc, udp, ref>>
    /\ UNCHANGED limiterVars

\* the client closes the connection
HttpDisconnect ==
    /\ hs.pc = "range"
    /\ ~hs.clientGone
    /\ hs' = [hs EXCEPT !.clientGone = TRUE]
    /\ UNCHANGED <<wire, compose, dnsOut, httpOut, sshOut, codec, coord, sess, pool, hist, conc, udp, ref>>
    /\ UNCHANGED limiterVars

\* what the loop body writes for a fragment
Written(kind, chunk) ==
    CASE kind = "sse-root" -> RootFrame(chunk)
      [] kind = "sse-chat" -> ChatFrame(chunk)
      [] OTHER -> chunk

\* http.go:174-180, 205-209, 268-271, 374-392  one round of `for chunk :=
\* range ch`: the fragment is written; a write to a client that is gone may
\* fail, and only the HTML loop looks at the error and returns
HttpRecv(chunk, fails) ==
    /\ hs.pc = "range"
    /\ hs.task = "running"
    /\ Len(hs.fragments) < MaxFragments
    /\ fails => hs.clientGone
    /\ hs' = [hs EXCEPT
                !.fragments = Append(@, chunk),
                !.body = IF hs.clientGone THEN @ ELSE @ \o Written(hs.kind, chunk),
                !.response = IF hs.kind = "html" /\ fails THEN @ ELSE @ \o chunk,
                !.writeFailed = @ \/ fails,
                !.pc = IF hs.kind = "html" /\ fails THEN "done" ELSE "range"]
    /\ UNCHANGED <<wire, compose, dnsOut, httpOut, sshOut, codec, coord, sess, pool, hist, conc, udp, ref>>
    /\ UNCHANGED limiterVars

\* the generation function returns and closes ch
HttpStreamEnds ==
    /\ hs.pc = "range"
    /\ hs.task = "running"
    /\ hs' = [hs EXCEPT !.task = "returned", !.chClosed = TRUE]
    /\ UNCHANGED <<wire, compose, dnsOut, httpOut, sshOut, codec, coord, sess, pool, hist, conc, udp, ref>>
    /\ UNCHANGED limiterVars

\* http.go:181-185, 210-211, 272-273, 393  the range finds ch closed: the
\* handler writes what ends the response and returns
HttpRangeEnds ==
    /\ hs.pc = "range"
    /\ hs.chClosed
    /\ LET tail == CASE hs.kind = "html" -> HtmlTail
                     [] hs.kind = "curl" -> CurlTail
                     [] OTHER -> DoneFrame
       IN  hs' = [hs EXCEPT !.pc = "done",
                            !.body = IF hs.clientGone THEN @ ELSE @ \o tail]
    /\ UNCHANGED <<wire, compose, dnsOut, httpOut, sshOut, codec, coord, sess, pool, hist, conc, udp, ref>>
    /\ UNCHANGED limiterVars

\* http.go:168-171  the handler has returned and the generation function,
\* which was given only ch, has another fragment: its send blocks
HttpSendAfterReturn ==
    /\ hs.pc = "done"
    /\ hs.task = "running"
    /\ hs' = [hs EXCEPT !.task = "blocked"]
    /\ UNCHANGED <<wire, compose, dnsOut, httpOut, sshOut, codec, coord, sess, pool, hist, conc, udp, ref>>
    /\ UNCHANGED limiterVars

\* http.go:168-171  the handler has returned and the generation function
\* returns without another fragment
HttpCloseAfterReturn ==
    /\ hs.pc = "done"
    /\ hs.task = "running"
    /\ hs' = [hs EXCEPT !.task = "returned", !.chClosed = TRUE]
    /\ UNCHANGED <<wire, compose, dnsOut, httpOut, sshOut, codec, coord, sess, pool, hist, conc, udp, ref>>
    /\ UNCHANGED limiterVars

NextHttpStream ==
    \/ \E kind \in StreamKinds : HttpStart(kind)
    \/ HttpDisconnect
    \/ \E chunk \in HttpFragments, fails \in BOOLEAN : HttpRecv(chunk, fails)
    \/ HttpStreamEnds
    \/ HttpRangeEnds
    \/ HttpSendAfterReturn
    \/ HttpCloseAfterReturn

\* the generation task runs on, and a handler that finds ch closed goes on
SpecHttpStream ==
    /\ InitHttpStream
    /\ [][NextHttpStream]_vars
    /\ WF_vars(HttpSendAfterReturn \/ HttpCloseAfterReturn)
    /\ WF_vars(HttpRangeEnds)

-----------------------------------------------------------------------------
(* One SSH session: the client sending packets, handleSession reading and *)
(* interpreting them codepoint by codepoint, and a generation in between. *)

InitSession ==
    /\ LimiterAtStart
    /\ InitAdapters
    /\ InitStream
    /\ InitSessions

\* the packets a client sends: "a", "e" with an acute accent, a smiley, the
\* two bytes of the accented "e" one at a time, delete, backspace, carriage
\* return, newline, Ctrl+C, "exit", a space, Ctrl+C with "a" behind it, and
\* a line with "a" behind it
Packets ==
    { <<97>>, <<195, 169>>, <<240, 159, 152, 128>>, <<195>>, <<169>>,
      <<127>>, <<8>>, <<13>>, <<10>>, <<3>>, <<101, 120, 105, 116>>, <<32>>,
      <<3, 97>>, <<97, 13, 97>> }

\* the fragments a generation hands over: none, "x", "a" then "b"
SshScripts == { <<>>, << <<120>> >>, << <<97>>, <<98>> >> }

\* part_005:714-717  the session starts: the welcome lines and "> "
SessStart ==
    /\ sess.pc = "idle"
    /\ sess' = [sess EXCEPT !.pc = "loop", !.wrote = Welcome]
    /\ UNCHANGED <<wire, compose, dnsOut, httpOut, sshOut, codec, coord, hs, pool, hist, conc, udp, ref>>
    /\ UNCHANGED limiterVars

\* the client sends a packet
SessType(p) ==
    /\ sess.pc \in {"loop", "generating"}
    /\ ~sess.hungUp
    /\ sess.sent < MaxPackets
    /\ Len(sess.inbox) < MaxPending
    /\ sess' = [sess EXCEPT !.inbox = Append(@, p), !.sent = @ + 1]
    /\ UNCHANGED <<wire, compose, dnsOut, httpOut, sshOut, codec, coord, hs, pool, hist, conc, udp, ref>>
    /\ UNCHANGED limiterVars

\* the client closes the channel
SessHangUp ==
    /\ sess.pc \in {"loop", "generating"}
    /\ ~sess.hungUp
    /\ sess' = [sess EXCEPT !.hungUp = TRUE]
    /\ UNCHANGED <<wire, compose, dnsOut, httpOut, sshOut, codec, coord, hs, pool, hist, conc, udp, ref>>
    /\ UNCHANGED limiterVars

\* part_005:724, 731-732  channel.Read(buf) returns a packet
SessRead ==
    /\ sess.pc = "loop"
    /\ sess.data = <<>>
    /\ sess.inbox # <<>>
    /\ sess' = [sess EXCEPT !.data = Runes(Head(sess.inbox)), !.inbox = Tail(@),
                            !.wrote = <<>>]
    /\ UNCHANGED <<wire, compose, dnsOut, httpOut, sshOut, codec, coord, hs, pool, hist, conc, udp, ref>>
    /\ UNCHANGED limiterVars

\* part_005:724-728  channel.Read(buf) returns an error: the channel is
\* closed and nothing is left to read
SessEof ==
    /\ sess.pc = "loop"
    /\ sess.data = <<>>
    /\ sess.inbox = <<>>
    /\ sess.hungUp
    /\ sess' = [sess EXCEPT !.pc = "terminated", !.end = "eof", !.wrote = <<>>]
    /\ UNCHANGED <<wire, compose, dnsOut, httpOut, sshOut, codec, coord, hs, pool, hist, conc, udp, ref>>
    /\ UNCHANGED limiterVars

\* part_005:733-775  the body of the range for the codepoint ch; script is
\* what the generation started for a submitted line will hand over
Interpret(s, ch, script) ==
    IF ch = 3
    THEN [s EXCEPT !.pc = "terminated", !.end = "ctrl-c", !.wrote = <<CtrlCEcho>>]
    ELSE IF ch = 10 \/ ch = 13
    THEN IF Len(s.input) > 0
         THEN LET line == TakeLine(s.input)
              IN  IF line.query = ExitWord
                  THEN [s EXCEPT !.pc = "terminated", !.end = "exit",
                                 !.input = line.input, !.wrote = <<NewlineEcho>>]
                  ELSE [s EXCEPT !.pc = "generating", !.input = line.input,
                                 !.query = line.query, !.prompts = @ + 1,
                                 !.script = script, !.shown = <<>>,
                                 !.wrote = <<NewlineEcho>>]
         ELSE [s EXCEPT !.wrote = <<NewlineEcho>>]
    ELSE IF ch = 8 \/ ch = 127
    THEN LET b == Backspace(s.input)
         IN  [s EXCEPT !.input = b.input, !.wrote = b.wrote]
    ELSE [s EXCEPT !.input = @ \o EncodeRune(ch), !.wrote = <<EncodeRune(ch)>>]

\* part_005:732  one round of `for _, ch := range data`
SessStep(script) ==
    /\ sess.pc = "loop"
    /\ sess.data # <<>>
    /\ LET ch   == Head(sess.data)
           next == Interpret([sess EXCEPT !.data = Tail(@)], ch, script)
       IN  sess' = [next EXCEPT
                      !.before = sess.input,
                      !.last = ch,
                      !.typed = IF next.prompts # sess.prompts THEN {}
                                ELSE IF ch \in {3, 8, 10, 13, 127} THEN @
                                ELSE @ \cup {ch}]
    /\ UNCHANGED <<wire, compose, dnsOut, httpOut, sshOut, codec, coord, hs, pool, hist, conc, udp, ref>>
    /\ UNCHANGED limiterVars

\* part_005:752-754  one round of `for chunk := range ch`: the fragment is
\* written
SessFragment ==
    /\ sess.pc = "generating"
    /\ Len(sess.shown) < Len(sess.script)
    /\ LET chunk == sess.script[Len(sess.shown) + 1]
       IN  sess' = [sess EXCEPT !.shown = Append(@, chunk), !.wrote = <<chunk>>]
    /\ UNCHANGED <<wire, compose, dnsOut, httpOut, sshOut, codec, coord, hs, pool, hist, conc, udp, ref>>
    /\ UNCHANGED limiterVars

\* part_005:752, 756  the range finds ch closed: "\r\n> " and back to the
\* codepoints of the read
SessStreamEnds ==
    /\ sess.pc = "generating"
    /\ sess.shown = sess.script
    /\ sess' = [sess EXCEPT !.pc = "loop", !.wrote = <<PromptMarker>>]
    /\ UNCHANGED <<wire, compose, dnsOut, httpOut, sshOut, codec, coord, hs, pool, hist, conc, udp, ref>>
    /\ UNCHANGED limiterVars

NextSession ==
    \/ SessStart
    \/ \E p \in Packets : SessType(p)
    \/ SessHangUp
    \/ SessRead
    \/ SessEof
    \/ \E script \in SshScripts : SessStep(script)
    \/ SessFragment
    \/ SessStreamEnds

SpecSession == InitSession /\ [][NextSession]_vars

-----------------------------------------------------------------------------
(* The accept loop of the SSH server and the goroutines it starts *)

InitPool ==
    /\ LimiterAtStart
    /\ InitAdapters
    /\ InitStream
    /\ InitSessions

\* part_005:636-643  the listener is open and sem is made
PoolListen ==
    /\ pool.pc = "idle"
    /\ pool' = [pool EXCEPT !.pc = "accept"]
    /\ UNCHANGED <<wire, compose, dnsOut, httpOut, sshOut, codec, coord, hs, sess, hist, conc, udp, ref>>
    /\ UNCHANGED limiterVars

\* part_005:644-648  listener.Accept() returns a connection, or an error
\* and the loop continues
PoolAccept(ok) ==
    /\ pool.pc = "accept"
    /\ pool' = IF ok THEN [pool EXCEPT !.pc = "select"]
               ELSE [pool EXCEPT !.last = "error"]
    /\ UNCHANGED <<wire, compose, dnsOut, httpOut, sshOut, codec, coord, hs, sess, hist, conc, udp, ref>>
    /\ UNCHANGED limiterVars

\* part_005:650-660  the select on the accepted connection: a goroutine
\* that handles it, or conn.Close()
PoolDispatch ==
    /\ pool.pc = "select"
    /\ Select(pool.sem) \in {"send", "default"}
    /\ pool' = IF Select(pool.sem) = "send"
               THEN [pool EXCEPT !.pc = "accept", !.sem = @ + 1, !.handling = @ + 1,
                                 !.last = "handled", !.seen = pool.sem]
               ELSE [pool EXCEPT !.pc = "accept", !.last = "closed",
                                 !.seen = pool.sem]
    /\ UNCHANGED <<wire, compose, dnsOut, httpOut, sshOut, codec, coord, hs, sess, hist, conc, udp, ref>>
    /\ UNCHANGED limiterVars

\* part_005:654  handleConnection(conn, config) returns in a goroutine, by
\* one of its ways; the deferred function is then due
PoolReturn(path) ==
    /\ pool.handling > 0
    /\ pool' = [pool EXCEPT !.handling = @ - 1,
                            !.releasing = IF ReleasesSlot(path) THEN @ + 1 ELSE @,
                            !.exit = path]
    /\ UNCHANGED <<wire, compose, dnsOut, httpOut, sshOut, codec, coord, hs, sess, hist, conc, udp, ref>>
    /\ UNCHANGED limiterVars

\* part_005:653  the deferred <-sem
PoolRelease ==
    /\ pool.releasing > 0
    /\ pool' = [pool EXCEPT !.releasing = @ - 1, !.sem = @ - 1]
    /\ UNCHANGED <<wire, compose, dnsOut, httpOut, sshOut, codec, coord, hs, sess, hist, conc, udp, ref>>
    /\ UNCHANGED limiterVars

NextPool ==
    \/ PoolListen
    \/ \E ok \in BOOLEAN : PoolAccept(ok)
    \/ PoolDispatch
    \/ \E path \in ExitPaths : PoolReturn(path)
    \/ PoolRelease

SpecPool == InitPool /\ [][NextPool]_vars

-----------------------------------------------------------------------------
(* One request for / that carries a conversation history *)

InitHistory ==
    /\ LimiterAtStart
    /\ InitAdapters
    /\ InitStream
    /\ InitSessions

\* the lengths of the h field, of the query and of the answer that are tried
HistoryLengths == {0, 1, 100, HistoryLimit - 10, HistoryLimit, HistoryLimit + 1}
QueryLengths == {0, 1, 100, HistoryLimit}
AnswerLengths == {0, 1, 100, HistoryLimit, HistoryLimit + 1}

HistoryRequests ==
    [method : {"GET", "POST"}, format : {"html", "curl", "json", "text"},
     incoming : HistoryLengths, query : QueryLengths, answer : AnswerLengths]

\* a request for / arrives and is answered
ServeHistory(r) ==
    /\ hist.pc = "idle"
    /\ hist' = RootHistory(r)
    /\ UNCHANGED <<wire, compose, dnsOut, httpOut, sshOut, codec, coord, hs, sess, pool, conc, udp, ref>>
    /\ UNCHANGED limiterVars

NextHistory == \E r \in HistoryRequests : ServeHistory(r)

SpecHistory == InitHistory /\ [][NextHistory]_vars

-----------------------------------------------------------------------------
(* The key of a call: rateLimitAllow on addresses of every shape, the    *)
(* clock standing still                                                  *)

\* addresses as net/http and the listeners give them, and malformed ones:
\* IPv4 and IPv6 with ports, no port, an empty port, no host, nothing, and
\* brackets without a port
KeyAddrs ==
    { <<"a", ":", "1">>, <<"a", ":", "2">>, <<"a">>, <<"b", ":", "1">>,
      <<"[", "c", ":", ":", "d", "]", ":", "1">>,
      <<"[", "c", ":", ":", "d", "]", ":", "2">>,
      <<"c", ":", ":", "d">>, <<"a", ":">>, <<":", "1">>, <<>>,
      <<"[", "c", "]">> }

InitKey ==
    /\ now = 0
    /\ limiters = [k \in {} |-> NewLimiter]
    /\ lastClean = 0
    /\ ncalls = 0
    /\ ret = [ip |-> <<>>, ok |-> FALSE, addr |-> <<>>]
    /\ granted = 0
    /\ ticks = 0
    /\ streak = [k \in Keys |-> NoStreak]
    /\ InitAdapters
    /\ InitStream
    /\ InitSessions

\* a request from addr reaches rateLimitAllow
KeyAllow(addr) ==
    /\ ncalls < MaxKeyCalls
    /\ LET r == RateLimitAllow(limiters, lastClean, addr, now)
       IN  /\ limiters' = r.limiters
           /\ lastClean' = r.lastClean
           /\ ncalls' = ncalls + 1
           /\ ret' = [ip |-> r.ip, ok |-> r.ok, addr |-> addr]
           /\ granted' = granted + (IF r.ok THEN 1 ELSE 0)
    /\ UNCHANGED <<now, ticks, streak>>
    /\ UNCHANGED adapterVars

NextKey == \E addr \in KeyAddrs : KeyAllow(addr)

SpecKey == InitKey /\ [][NextKey]_vars

-----------------------------------------------------------------------------
(* Calls and clock advances, with the same calls made on a reference      *)
(* table that is never cleaned                                            *)

InitClean ==
    /\ now = 0
    /\ limiters = [k \in {} |-> NewLimiter]
    /\ lastClean = 0
    /\ ncalls = 0
    /\ ret = [ip |-> <<>>, ok |-> FALSE]
    /\ granted = 0
    /\ ticks = 0
    /\ streak = [k \in Keys |-> NoStreak]
    /\ InitAdapters
    /\ InitStream
    /\ InitSessions

\* the call on the reference table: the key's bucket is looked up or made,
\* and asked; no bucket is removed
RefAllow(tbl, addr, t) ==
    LET ip == ClientKey(addr)
        r  == LimiterAllow(LoadOrStore(tbl, ip), t)
    IN  [ok |-> r.ok,
         limiters |-> [k \in DOMAIN tbl \cup {ip} |-> IF k = ip THEN r.lim ELSE tbl[k]]]

\* a request from addr reaches rateLimitAllow
CleanAllow(addr) ==
    /\ ncalls < MaxCalls
    /\ LET r == RateLimitAllow(limiters, lastClean, addr, now)
       IN  /\ limiters' = r.limiters
           /\ lastClean' = r.lastClean
           /\ ncalls' = ncalls + 1
           /\ ret' = [ip |-> r.ip, ok |-> r.ok]
    /\ ref' = RefAllow(ref.limiters, addr, now)
    /\ UNCHANGED <<now, ticks, granted, streak>>
    /\ UNCHANGED <<wire, compose, dnsOut, httpOut, sshOut, codec, coord, hs, sess, pool, hist, conc, udp>>

\* the clock advances by d seconds
CleanTick(d) ==
    /\ ticks < MaxTicks
    /\ now' = now + d
    /\ ticks' = ticks + 1
    /\ UNCHANGED <<limiters, lastClean, ncalls, ret, granted, streak>>
    /\ UNCHANGED adapterVars

NextClean ==
    \/ \E addr \in Addrs : CleanAllow(addr)
    \/ \E d \in Delays : CleanTick(d)

SpecClean == InitClean /\ [][NextClean]_vars

-----------------------------------------------------------------------------
(* Concurrent calls of rateLimitAllow, more than an hour after the key a  *)
(* was last seen                                                          *)

InitConc ==
    /\ LimiterAtStart
    /\ InitAdapters
    /\ InitStream
    /\ InitSessions

\* util.go:13-14  the state the calls find: a call for the key a has made
\* its bucket, more than an hour has passed since then and since lastClean,
\* and the bucket is full again
ConcSetup ==
    /\ conc.pc = "idle"
    /\ conc' = [conc EXCEPT !.pc = "running", !.due = TRUE,
                            !.table = [k \in { <<"a">> } |-> 1],
                            !.tokens = <<Burst>>]
    /\ UNCHANGED <<wire, compose, dnsOut, httpOut, sshOut, codec, coord, hs, sess, pool, hist, udp, ref>>
    /\ UNCHANGED limiterVars

\* util.go:17-22  a goroutine calls rateLimitAllow for the key
ConcCall(p, key) ==
    /\ conc.pc = "running"
    /\ conc.procs[p].pc \in {"idle", "done"}
    /\ conc.calls < MaxConcCalls
    /\ conc' = [conc EXCEPT !.procs[p] = [ProcIdle EXCEPT !.pc = "check", !.key = key],
                            !.calls = @ + 1]
    /\ UNCHANGED <<wire, compose, dnsOut, httpOut, sshOut, codec, coord, hs, sess, pool, hist, udp, ref>>
    /\ UNCHANGED limiterVars

\* util.go:25  time.Since(lastClean) > time.Hour: lastClean is read without
\* synchronisation; while another goroutine is writing it the read may give
\* either answer
ConcCheck(p, seen) ==
    /\ conc.procs[p].pc = "check"
    /\ seen \in (IF \E q \in Procs \ {p} : conc.procs[q].pc = "mark"
                 THEN BOOLEAN ELSE {conc.due})
    /\ conc' = [conc EXCEPT !.procs[p].pc = IF seen THEN "mark" ELSE "store"]
    /\ UNCHANGED <<wire, compose, dnsOut, httpOut, sshOut, codec, coord, hs, sess, pool, hist, udp, ref>>
    /\ UNCHANGED limiterVars

\* util.go:26-27  lastClean = time.Now(), and limiters.Range begins on the
\* keys of the table
ConcMark(p) ==
    /\ conc.procs[p].pc = "mark"
    /\ conc' = [conc EXCEPT !.due = FALSE,
                            !.procs[p].pc = "range",
                            !.procs[p].todo = DOMAIN conc.table]
    /\ UNCHANGED <<wire, compose, dnsOut, httpOut, sshOut, codec, coord, hs, sess, pool, hist, udp, ref>>
    /\ UNCHANGED limiterVars

\* util.go:27-32  Range calls the function on a key and its bucket: a
\* bucket with 10 tokens or more is to be deleted.  A key deleted in the
\* meantime is not visited.
ConcVisit(p, key) ==
    /\ conc.procs[p].pc = "range"
    /\ key \in conc.procs[p].todo
    /\ conc' = [conc EXCEPT
                  !.procs[p].todo = @ \ {key},
                  !.procs[p].pc =
                      IF key \in DOMAIN conc.table
                         /\ conc.tokens[conc.table[key]] >= CleanTokens
                      THEN "delete" ELSE "range",
                  !.procs[p].victim = key]
    /\ UNCHANGED <<wire, compose, dnsOut, httpOut, sshOut, codec, coord, hs, sess, pool, hist, udp, ref>>
    /\ UNCHANGED limiterVars

\* util.go:29  limiters.Delete(key): whatever bucket the key has now goes
ConcDelete(p) ==
    /\ conc.procs[p].pc = "delete"
    /\ conc' = [conc EXCEPT
                  !.table = [k \in DOMAIN conc.table \ {conc.procs[p].victim} |->
                                conc.table[k]],
                  !.procs[p].pc = "range"]
    /\ UNCHANGED <<wire, compose, dnsOut, httpOut, sshOut, codec, coord, hs, sess, pool, hist, udp, ref>>
    /\ UNCHANGED limiterVars

\* util.go:27, 33  Range has visited every key
ConcRangeEnds(p) ==
    /\ conc.procs[p].pc = "range"
    /\ conc.procs[p].todo = {}
    /\ conc' = [conc EXCEPT !.procs[p].pc = "store"]
    /\ UNCHANGED <<wire, compose, dnsOut, httpOut, sshOut, codec, coord, hs, sess, pool, hist, udp, ref>>
    /\ UNCHANGED limiterVars

\* util.go:36-37  limiter := the bucket LoadOrStore returns
ConcStore(p) ==
    /\ conc.procs[p].pc = "store"
    /\ LET r == ConcLoadOrStore(conc, conc.procs[p].key)
       IN  conc' = [conc EXCEPT !.table = r.table, !.tokens = r.tokens,
                                !.procs[p].held = r.held,
                                !.procs[p].pc = "allow"]
    /\ UNCHANGED <<wire, compose, dnsOut, httpOut, sshOut, codec, coord, hs, sess, pool, hist, udp, ref>>
    /\ UNCHANGED limiterVars

\* util.go:39  return limiter.Allow(): one token of the bucket held, under
\* the bucket's own lock
ConcAllow(p) ==
    /\ conc.procs[p].pc = "allow"
    /\ LET b  == conc.procs[p].held
           ok == conc.tokens[b] >= 1
       IN  conc' = [conc EXCEPT
                      !.tokens[b] = IF ok THEN @ - 1 ELSE @,
                      !.granted[conc.procs[p].key] = IF ok THEN @ + 1 ELSE @,
                      !.procs[p].ok = ok,
                      !.procs[p].pc = "done"]
    /\ UNCHANGED <<wire, compose, dnsOut, httpOut, sshOut, codec, coord, hs, sess, pool, hist, udp, ref>>
    /\ UNCHANGED limiterVars

NextConc ==
    \/ ConcSetup
    \/ \E p \in Procs, key \in ConcKeys : ConcCall(p, key)
    \/ \E p \in Procs, seen \in BOOLEAN : ConcCheck(p, seen)
    \/ \E p \in Procs : ConcMark(p)
    \/ \E p \in Procs, key \in ConcKeys : ConcVisit(p, key)
    \/ \E p \in Procs : ConcDelete(p)
    \/ \E p \in Procs : ConcRangeEnds(p)
    \/ \E p \in Procs : ConcStore(p)
    \/ \E p \in Procs : ConcAllow(p)

SpecConc == InitConc /\ [][NextConc]_vars

-----------------------------------------------------------------------------
(* Datagrams arriving at the DNS server while handlers run *)

InitUdp ==
    /\ LimiterAtStart
    /\ InitAdapters
    /\ InitStream
    /\ InitSessions

\* the datagrams that arrive: ID 1 asking 10, ID 2 asking 20, ID 3 asking
\* 30 31
Datagrams == { <<1, 10>>, <<2, 20>>, <<3, 30, 31>> }

\* part_002:32-33  buf is made and the loop begins
UdpStart ==
    /\ udp.pc = "idle"
    /\ udp' = [udp EXCEPT !.pc = "read", !.buf = NewBuf]
    /\ UNCHANGED <<wire, compose, dnsOut, httpOut, sshOut, codec, coord, hs, sess, pool, hist, conc, ref>>
    /\ UNCHANGED limiterVars

\* part_002:34  conn.ReadFromUDP(buf): a datagram is there to be written
\* into buf
UdpReceive(d) ==
    /\ udp.pc = "read"
    /\ Len(udp.handlers) < MaxDatagrams
    /\ udp' = [udp EXCEPT !.pc = "copy", !.cur = d, !.copied = 0]
    /\ UNCHANGED <<wire, compose, dnsOut, httpOut, sshOut, codec, coord, hs, sess, pool, hist, conc, ref>>
    /\ UNCHANGED limiterVars

\* part_002:34  ReadFromUDP writes the next byte of the datagram into buf
UdpCopyByte ==
    /\ udp.pc = "copy"
    /\ udp.copied < Len(udp.cur)
    /\ udp' = [udp EXCEPT !.buf[udp.copied + 1] = udp.cur[udp.copied + 1],
                          !.copied = @ + 1]
    /\ UNCHANGED <<wire, compose, dnsOut, httpOut, sshOut, codec, coord, hs, sess, pool, hist, conc, ref>>
    /\ UNCHANGED limiterVars

\* part_002:34-40  ReadFromUDP returns n and the handler is started on
\* buf[:n]
UdpSpawn ==
    /\ udp.pc = "copy"
    /\ udp.copied = Len(udp.cur)
    /\ udp' = [udp EXCEPT !.pc = "read",
                          !.handlers = Append(@, NewHandler(udp.cur))]
    /\ UNCHANGED <<wire, compose, dnsOut, httpOut, sshOut, codec, coord, hs, sess, pool, hist, conc, ref>>
    /\ UNCHANGED limiterVars

\* part_002:44-75  the handler decodes the question of query and calls the
\* generation function
UdpDecode(i) ==
    /\ i \in DOMAIN udp.handlers
    /\ udp.handlers[i].pc = "started"
    /\ udp' = [udp EXCEPT !.handlers[i].pc = "generating",
                          !.handlers[i].question = Tail(Query(udp.buf, udp.handlers[i]))]
    /\ UNCHANGED <<wire, compose, dnsOut, httpOut, sshOut, codec, coord, hs, sess, pool, hist, conc, ref>>
    /\ UNCHANGED limiterVars

\* part_002:75-90  the generation function has returned: buildDNSResponse
\* copies the ID and the question out of query, and the reply is sent
UdpReply(i) ==
    /\ i \in DOMAIN udp.handlers
    /\ udp.handlers[i].pc = "generating"
    /\ LET query == Query(udp.buf, udp.handlers[i])
       IN  udp' = [udp EXCEPT !.handlers[i].pc = "done",
                              !.handlers[i].id = query[1],
                              !.handlers[i].copied = Tail(query)]
    /\ UNCHANGED <<wire, compose, dnsOut, httpOut, sshOut, codec, coord, hs, sess, pool, hist, conc, ref>>
    /\ UNCHANGED limiterVars

NextUdp ==
    \/ UdpStart
    \/ \E d \in Datagrams : UdpReceive(d)
    \/ UdpCopyByte
    \/ UdpSpawn
    \/ \E i \in 1 .. MaxDatagrams : UdpDecode(i)
    \/ \E i \in 1 .. MaxDatagrams : UdpReply(i)

SpecUdp == InitUdp /\ [][NextUdp]_vars

-----------------------------------------------------------------------------
(* Claims about the admission controller *)

\* C1: for one key whose bucket is full (capacity 10), in calls made with no
\* time passing between them (so no token is refilled), the first 10 Allow
\* calls return true and the 11th, like every later one, returns false.
C1_BurstOfTen ==
    \A k \in Keys :
        streak[k].full =>
            \A i \in 1 .. Len(streak[k].res) : streak[k].res[i] = (i <= 10)

\* a key has made 11 calls on a full bucket with no refill: the 10th was
\* admitted and the 11th refused
C1_Witness ==
    \E k \in Keys :
        /\ streak[k].full
        /\ Len(streak[k].res) = 11
        /\ streak[k].res[10]
        /\ ~streak[k].res[11]

\* C2: a call of Allow(key) returns true iff the key's bucket, refilled for
\* the time elapsed since its last access, holds at least one token, and then
\* holds exactly one token less; when it returns false the key's bucket
\* (token count and refill timestamp) is what it was before the call.  A key
\* the table does not hold yet is admitted from a full bucket.
C2_AllowFrame ==
    [][ ncalls' = ncalls + 1 =>
          LET ip    == ret'.ip
              avail == Available(limiters, ip, now)
          IN  /\ ret'.ok <=> avail >= One
              /\ ret'.ok => /\ limiters'[ip].tokens = avail - One
                            /\ limiters'[ip].last = now
              /\ ~ret'.ok => /\ ip \in DOMAIN limiters
                             /\ limiters'[ip] = limiters[ip]
              /\ ip \notin DOMAIN limiters =>
                    /\ ret'.ok
                    /\ limiters'[ip].tokens = Full - One ]_vars

\* a call was refused although the bucket held a fraction of a token, and the
\* fraction is still there
C2_Witness ==
    /\ ncalls > 0
    /\ ~ret.ok
    /\ ret.ip \in DOMAIN limiters
    /\ limiters[ret.ip].tokens > 0
    /\ limiters[ret.ip].tokens < One

MaxEntries == Cardinality(Keys) - 1

C4_TableBounded == Cardinality(DOMAIN limiters) <= MaxEntries

-----------------------------------------------------------------------------
(* Claims about the adapters' gate and the DNS codec *)

\* the length bytes a reader meets walking the question name of q from
\* offset pos: up to the root label, the end of the datagram, or the first
\* length byte that is no label length (64 or more)
RECURSIVE LengthBytes(_, _)
LengthBytes(q, pos) ==
    IF pos >= Len(q) THEN <<>>
    ELSE LET l == q[pos + 1]
         IN  IF l = 0 THEN <<>>
             ELSE IF l >= 64 THEN <<l>>
             ELSE <<l>> \o LengthBytes(q, pos + 1 + l)

\* the offset of the root label that ends the name of q walked from pos;
\* -1 when the walk meets a bad length byte or the end of the datagram first
RECURSIVE NameEnd(_, _)
NameEnd(q, pos) ==
    IF pos >= Len(q) THEN 0 - 1
    ELSE LET l == q[pos + 1]
         IN  IF l = 0 THEN pos
             ELSE IF l >= 64 THEN 0 - 1
             ELSE NameEnd(q, pos + 1 + l)

RECURSIVE Sum(_)
Sum(s) == IF s = <<>> THEN 0 ELSE s[1] + Sum(Tail(s))

\* the length of the dotted name the length bytes of q spell out
DottedLen(q) ==
    LET ls == LengthBytes(q, 12)
    IN  IF ls = <<>> THEN 0 ELSE Sum(ls) + Len(ls) - 1

HasPointer(q) == \E i \in DOMAIN LengthBytes(q, 12) : LengthBytes(q, 12)[i] >= 192

HasLongLabel(q) == \E i \in DOMAIN LengthBytes(q, 12) : LengthBytes(q, 12)[i] >= 64

Decodes(q) == extractQuestion(q).s # <<>>

QRSet(q) == Len(q) >= 3 /\ q[3] >= 128

\* C5: when Allow returned false for a request, the generation collaborator
\* was not invoked for it: the HTTP handlers answered 429, the DNS handler
\* sent no datagram, and the SSH handler closed the connection with no
\* handshake and no session.
C5_RefusedNeverGenerates ==
    (ncalls > 0 /\ ~ret.ok) =>
        /\ dnsOut.llm = 0 /\ ~dnsOut.sent
        /\ httpOut.llm = 0 /\ (httpOut.handled => httpOut.status = 429)
        /\ sshOut.llm = 0 /\ sshOut.sessions = 0 /\ ~sshOut.handshake
        /\ (sshOut.handled => sshOut.closed)

\* a well-formed query was refused and dropped
C5_Witness ==
    /\ ncalls > 0 /\ ~ret.ok
    /\ dnsOut.handled /\ ~dnsOut.sent
    /\ ~QRSet(wire) /\ Decodes(wire)

\* C6: extractQuestion returns "" for every datagram whose question name has
\* a length byte with the top two bits set, a length byte of 64 or more, or
\* spells a dotted name of 256 bytes or more; and a datagram it returns ""
\* for gets no reply.
C6_DecodeRejects ==
    /\ (HasPointer(wire) \/ HasLongLabel(wire) \/ DottedLen(wire) >= 256)
          => ~Decodes(wire)
    /\ (dnsOut.handled /\ ~Decodes(wire)) => ~dnsOut.sent

\* an admitted query with a complete question whose name is too long was
\* dropped
C6_Witness ==
    /\ dnsOut.handled /\ dnsOut.gate = "allowed" /\ ~QRSet(wire)
    /\ DottedLen(wire) >= 256
    /\ ~HasLongLabel(wire)
    /\ NameEnd(wire, 12) >= 0 /\ Len(wire) >= NameEnd(wire, 12) + 5
    /\ ~dnsOut.sent

\* C7: whatever the datagram, the handler indexes no byte outside it (the Go
\* runtime never panics), and a datagram that does not decode is only
\* dropped: no generation, no reply.
C7_NoPanic ==
    /\ ~dnsOut.panic
    /\ ~extractQuestion(wire).panic
    /\ (dnsOut.handled /\ ~dnsOut.decoded) => (~dnsOut.sent /\ dnsOut.llm = 0)

\* an admitted datagram that ends in the middle of a label was dropped
C7_Witness ==
    /\ dnsOut.handled /\ dnsOut.gate = "allowed" /\ ~QRSet(wire)
    /\ LengthBytes(wire, 12) # <<>>
    /\ 12 + Sum(LengthBytes(wire, 12)) + Len(LengthBytes(wire, 12)) > Len(wire)
    /\ ~HasLongLabel(wire)
    /\ ~dnsOut.sent /\ ~dnsOut.panic

\* C8 (as stated): extractQuestion returns a name only if the walk from
\* offset 12 ended at a root label and at least 4 bytes follow that byte.
C8_FourBytesAfterName ==
    (dnsOut.decoded /\ Decodes(wire)) =>
        /\ NameEnd(wire, 12) >= 0
        /\ Len(wire) - (NameEnd(wire, 12) + 1) >= 4

\* C9: a datagram with the QR bit set is dropped: no reply and no generation.
C9_ResponsesDropped ==
    (dnsOut.handled /\ QRSet(wire)) => (~dnsOut.sent /\ dnsOut.llm = 0)

\* an admitted datagram with the QR bit set and a question that decodes was
\* dropped
C9_Witness ==
    /\ dnsOut.handled /\ dnsOut.gate = "allowed"
    /\ QRSet(wire) /\ Decodes(wire)
    /\ ~dnsOut.sent /\ dnsOut.llm = 0

\* the name, label by label, a reader finds at offset pos of q
RECURSIVE NameAt(_, _)
NameAt(q, pos) ==
    IF pos >= Len(q) THEN <<>>
    ELSE LET l == q[pos + 1]
         IN  IF l = 0 \/ l >= 64 \/ pos + 1 + l > Len(q) THEN <<>>
             ELSE <<SubSeq(q, pos + 2, pos + 1 + l)>> \o NameAt(q, pos + 1 + l)

\* the end of the question section of q: behind the root label, QTYPE and
\* QCLASS, or the end of the datagram when that comes first
QuestionEnd(q) == Min(Len(q), NameEnd(q, 12) + 5)

\* C10: the response to a query that decoded carries the query's two ID
\* bytes and, byte for byte, its question section; the answer record the
\* encoder appends behind the copied query starts with the pointer 0xC00C,
\* whose target, offset 12, holds in the response the name it holds in the
\* query.
C10_RoundTrip ==
    (dnsOut.sent /\ Len(dnsOut.reply) < 512) =>
        LET r == dnsOut.reply
            n == Len(wire)
        IN  /\ Len(r) >= n + 2
            /\ SubSeq(r, 1, 2) = SubSeq(wire, 1, 2)
            /\ SubSeq(r, 13, QuestionEnd(wire)) = SubSeq(wire, 13, QuestionEnd(wire))
            /\ r[n + 1] = 192 /\ r[n + 2] = 12
            /\ (r[n + 1] % 64) * 256 + r[n + 2] = 12
            /\ NameAt(r, 12) = NameAt(wire, 12)
            /\ NameAt(wire, 12) # <<>>

\* a query with a name of two labels was answered
C10_Witness ==
    /\ dnsOut.sent
    /\ Len(NameAt(wire, 12)) = 2
    /\ NameAt(dnsOut.reply, 12) = NameAt(wire, 12)
    /\ SubSeq(dnsOut.reply, 1, 2) = <<171, 205>>

\* bit k (value 1, 2, 4, ... 128) of a byte
Bit(b, k) == (b \div k) % 2 = 1

\* C11 (as stated): every response buildDNSResponse produces has the QR bit
\* (0x80 of byte 2) and the AA bit (0x04 of byte 2) set.
C11_FlagsQRAA ==
    dnsOut.sent =>
        /\ Bit(dnsOut.assembled[3], 128)
        /\ Bit(dnsOut.assembled[3], 4)

\* C12 (as stated): the response is the header, the question section and one
\* answer record that starts right behind the question section, and its
\* 16-bit answer count is 1.
C12_AnswerBehindQuestion ==
    dnsOut.sent =>
        LET r == dnsOut.assembled
            e == QuestionEnd(wire)
        IN  /\ r[7] * 256 + r[8] = 1
            /\ Len(r) = e + 12 + Len(buildTXTData(dnsOut.response))
            /\ r[e + 1] = 192 /\ r[e + 2] = 12

\* C14: the datagram sent is never longer than 512 bytes; its TC bit (0x02
\* of byte 2) is set iff the assembled response was longer than 512 bytes,
\* and then it is the first 512 bytes of the assembled response (with that
\* bit set); an assembled response of at most 512 bytes is sent as it is.
C14_Truncation ==
    dnsOut.sent =>
        LET a == dnsOut.assembled
            r == dnsOut.reply
        IN  /\ Len(r) <= 512
            /\ Bit(r[3], 2) <=> Len(a) > 512
            /\ Len(a) > 512 =>
                  /\ Len(r) = 512
                  /\ \A i \in (1 .. 512) \ {3} : r[i] = a[i]
                  /\ r[3] = a[3] + 2
            /\ Len(a) <= 512 => r = a

\* an assembled response of 513 bytes was cut to 512 and sent with TC set
C14_Witness ==
    /\ dnsOut.sent
    /\ Len(dnsOut.assembled) = 513
    /\ Len(dnsOut.reply) = 512
    /\ Bit(dnsOut.reply[3], 2)

\* "what-is-2-2", "ch", "at" and "what is 2 2"
WhatIs22 ==
    << <<119, 104, 97, 116, 45, 105, 115, 45, 50, 45, 50>>, <<99, 104>>, <<97, 116>> >>
WhatIs22Prompt == <<119, 104, 97, 116, 32, 105, 115, 32, 50, 32, 50>>

\* the length of the dotted name n without a final ".ch.at" and then
\* without a final "."
PromptLen(n) ==
    LET k == IF Len(n) >= 6 /\ SubSeq(n, Len(n) - 5, Len(n)) = <<46, 99, 104, 46, 97, 116>>
             THEN Len(n) - 6 ELSE Len(n)
    IN  IF k > 0 /\ n[k] = 46 THEN k - 1 ELSE k

\* C15: the prompt is the decoded name without the suffix ".ch.at" (when it
\* ends in it), without a trailing dot, and with a space for every '-';
\* what-is-2-2.ch.at gives "what is 2 2", and when the generation yields "4"
\* the answer record's TXT data is the one character-string "4".
C15_PromptExtraction ==
    dnsOut.decoded =>
        LET n == Join(NameAt(wire, 12))
            p == dnsOut.prompt
        IN  /\ Len(p) = PromptLen(n)
            /\ \A i \in 1 .. Len(p) : p[i] = IF n[i] = 45 THEN 32 ELSE n[i]
            /\ NameAt(wire, 12) = WhatIs22 => p = WhatIs22Prompt
            /\ (dnsOut.sent /\ dnsOut.response = <<52>>) =>
                  SubSeq(dnsOut.assembled, Len(wire) + 1, Len(dnsOut.assembled))
                      = <<192, 12, 0, 16, 0, 1, 0, 0, 0, 0, 0, 2, 1, 52>>

\* the query for what-is-2-2.ch.at was answered with "4"
C15_Witness ==
    /\ dnsOut.sent
    /\ NameAt(wire, 12) = WhatIs22
    /\ dnsOut.prompt = WhatIs22Prompt
    /\ dnsOut.response = <<52>>
    /\ SubSeq(dnsOut.reply, Len(wire) + 11, Len(dnsOut.reply)) = <<0, 2, 1, 52>>

-----------------------------------------------------------------------------
(* Claims about the TXT encoders and the stream coordinator *)

\* RDATA read as length-prefixed character-strings
RECURSIVE ParseTXT(_)
ParseTXT(data) ==
    IF data = <<>> THEN [ok |-> TRUE, strings |-> <<>>]
    ELSE LET l == data[1]
         IN  IF l > 255 \/ 1 + l > Len(data)
             THEN [ok |-> FALSE, strings |-> <<>>]
             ELSE LET rest == ParseTXT(SubSeq(data, l + 2, Len(data)))
                  IN  [ok |-> rest.ok,
                       strings |-> <<SubSeq(data, 2, l + 1)>> \o rest.strings]

RECURSIVE Concat(_)
Concat(ss) == IF ss = <<>> THEN <<>> ELSE ss[1] \o Concat(Tail(ss))

\* ss is text in ceil(N/255) strings of at most 255 bytes
Chunked(ss, text) ==
    /\ Len(ss) = (Len(text) + 254) \div 255
    /\ \A i \in DOMAIN ss : Len(ss[i]) <= 255
    /\ Concat(ss) = text

\* C13: for a text of any length N, 0 and the multiples of 255 included,
\* the RDATA buildTXTData builds is exactly ceil(N/255) length-prefixed
\* character-strings of at most 255 bytes whose concatenation is the text;
\* so are the strings handleDNS puts in its TXT record.
C13_Chunking ==
    /\ codec.stage = "encoded" =>
          /\ ParseTXT(codec.data).ok
          /\ Chunked(ParseTXT(codec.data).strings, codec.text)
    /\ codec.stage = "split" => Chunked(codec.strings, codec.text)

\* a text of 510 bytes was encoded as two strings of 255 bytes
C13_Witness ==
    /\ codec.stage = "encoded"
    /\ Len(codec.text) = 510
    /\ Len(codec.data) = 512
    /\ codec.data[1] = 255 /\ codec.data[257] = 255

\* C16: whatever the stream does (nothing, fragments without end, a close),
\* the loop, once entered, is left, and the handler writes exactly one
\* message.
C16_OneResult ==
    /\ [](coord.replies <= 1)
    /\ [](coord.pc = "done" => coord.replies = 1)
    /\ (coord.pc = "select") ~> (coord.pc = "done")

\* a stream that was still handing over fragments was cut off by the
\* deadline, and one message was written
C16_Witness ==
    /\ coord.pc = "done" /\ coord.replies = 1
    /\ coord.exit = "deadline"
    /\ ~coord.streamClosed /\ coord.total > 0

\* C17: when the deadline ends the loop with nothing accumulated, the
\* result text is "Request timed out".
C17_TimedOut ==
    (coord.pc = "done" /\ coord.exit = "deadline" /\ coord.total = 0) =>
        /\ coord.finalResponse = RequestTimedOut
        /\ coord.txt = <<RequestTimedOut>>

\* the deadline ended the loop of a silent stream
C17_Witness ==
    /\ coord.pc = "done" /\ coord.exit = "deadline"
    /\ coord.total = 0 /\ ~coord.streamClosed
    /\ Len(coord.finalResponse) = 17

\* C18 (as stated): when the fragments received add up to exactly 500
\* bytes, the result text is their concatenation, 500 bytes, with no marker.
C18_ExactLimit ==
    (coord.pc = "done" /\ coord.total = Limit) =>
        coord.finalResponse = Fragment(0, Limit)

\* C19: when the fragments received add up to more than 500 bytes, the
\* result text is at most 500 bytes, ends in "...", and starts with the
\* first 497 bytes of the concatenation.
C19_Truncated ==
    (coord.pc = "done" /\ coord.total > Limit) =>
        LET f == coord.finalResponse
        IN  /\ Len(f) <= Limit
            /\ Len(f) >= 3
            /\ SubSeq(f, Len(f) - 2, Len(f)) = <<46, 46, 46>>
            /\ SubSeq(f, 1, Limit - 3) = Fragment(0, Limit - 3)

\* fragments of 497 and 250 bytes were received
C19_Witness ==
    /\ coord.pc = "done" /\ coord.exit = "limit"
    /\ coord.total = 747
    /\ Len(coord.finalResponse) = 500

\* C20: on every exit of the loop the final text is at most 500 bytes.
C20_NeverLonger ==
    /\ Len(coord.finalResponse) <= Limit
    /\ \A i \in DOMAIN coord.txt : Len(coord.txt[i]) <= Limit
    /\ Len(Concat(coord.txt)) <= Limit

\* the deadline found 499 bytes accumulated; with the marker the text was
\* too long and was cut
C20_Witness ==
    /\ coord.pc = "done" /\ coord.exit = "deadline"
    /\ coord.total = 499
    /\ Len(coord.response) = 515
    /\ Len(coord.finalResponse) = 500

\* "... (incomplete)", the marker the claims speak of
Marker == <<46, 46, 46, 32, 40, 105, 110, 99, 111, 109, 112, 108, 101, 116, 101, 41>>

\* C21 (as stated): when the deadline ends the loop with 1 to 499 bytes
\* accumulated, the result is all of the accumulated text followed by
\* "... (incomplete)".
C21_Original ==
    (coord.pc = "done" /\ coord.exit = "deadline" /\ coord.total > 0) =>
        coord.finalResponse = Fragment(0, coord.total) \o Marker

\* C21 (amended): when the deadline ends the loop with 1 to 483 bytes
\* accumulated, the result is the accumulated text followed by
\* "... (incomplete)"; with 484 to 499 bytes, text and marker together reach
\* 500 bytes and the result is their first 497 bytes followed by "...".
C21_DeadlinePartial ==
    (coord.pc = "done" /\ coord.exit = "deadline" /\ coord.total > 0) =>
        LET marked == Fragment(0, coord.total) \o Marker
        IN  IF coord.total <= Limit - 17
            THEN coord.finalResponse = marked
            ELSE coord.finalResponse = SubSeq(marked, 1, Limit - 3) \o <<46, 46, 46>>

\* the deadline found 483 bytes accumulated and the marker was appended whole
C21_Witness ==
    /\ coord.pc = "done" /\ coord.exit = "deadline"
    /\ coord.total = 483
    /\ Len(coord.finalResponse) = 499
    /\ SubSeq(coord.finalResponse, 484, 499) = Marker

\* C22: when the loop finds the channel closed, fewer than 500 bytes were
\* received and the result is exactly the fragments received, in order,
\* with no marker; and a stream that closed while the timer had not fired
\* ends the loop this way.
C22_Completed ==
    /\ []((coord.pc = "done" /\ coord.exit = "closed") =>
            /\ coord.channelClosed
            /\ coord.total < Limit
            /\ coord.finalResponse = Fragment(0, coord.total)
            /\ Concat(coord.txt) = Fragment(0, coord.total))
    /\ [][(/\ coord.pc = "select" /\ coord.streamClosed /\ coord.timer = "armed"
           /\ coord'.pc = "done")
            => coord'.exit = "closed"]_vars

\* a stream closed after fragments of 250, 3 and 1 bytes, before the timer
\* fired
C22_Witness ==
    /\ coord.pc = "done" /\ coord.exit = "closed"
    /\ coord.timer = "armed"
    /\ coord.total = 254
    /\ coord.finalResponse = Fragment(0, 254)

\* C23 (as stated): after the loop was left through the deadline or the
\* length limit, the generation task eventually terminates (it is not left
\* blocked sending a fragment), and no fragment is delivered once the loop
\* was left.
C23_TaskTerminates ==
    /\ (coord.pc = "done" /\ coord.exit \in {"deadline", "limit"})
          ~> (coord.task = "returned")
    /\ [][coord.pc = "done" => coord'.response = coord.response]_vars

-----------------------------------------------------------------------------
(* Claims about streamed HTTP responses *)

\* C24 (as stated): when a write of a fragment fails because the client is
\* gone and the handler returns, the generation task eventually terminates:
\* it does not stay blocked on the unbuffered channel.
C24_TaskEndsOnDisconnect ==
    (hs.pc = "done" /\ hs.writeFailed) ~> (hs.task = "returned")

\* the events of an event stream: the pieces between blank lines, and what
\* is left behind the last blank line, if anything
RECURSIVE SplitEvents(_, _)
SplitEvents(b, cur) ==
    IF b = <<>> THEN (IF cur = <<>> THEN <<>> ELSE <<cur>>)
    ELSE IF Len(b) >= 2 /\ b[1] = 10 /\ b[2] = 10
    THEN <<cur>> \o SplitEvents(SubSeq(b, 3, Len(b)), <<>>)
    ELSE SplitEvents(Tail(b), Append(cur, b[1]))

StartsWithData(e) == Len(e) >= 6 /\ SubSeq(e, 1, 6) = <<100, 97, 116, 97, 58, 32>>

DoneEvent == <<100, 97, 116, 97, 58, 32, 91, 68, 79, 78, 69, 93>>

\* C25 (as stated): a finished SSE response, read by a client that stayed,
\* is one data frame per fragment, in production order, and then exactly
\* one `data: [DONE]` frame, with nothing behind it.
C25_FramesThenDone ==
    (hs.pc = "done" /\ hs.kind \in {"sse-root", "sse-chat"} /\ ~hs.clientGone) =>
        LET ev == SplitEvents(hs.body, <<>>)
            n  == Len(hs.fragments)
        IN  /\ Len(ev) = n + 1
            /\ \A i \in 1 .. n : StartsWithData(ev[i]) /\ ev[i] # DoneEvent
            /\ hs.kind = "sse-root" =>
                  \A i \in 1 .. n : ev[i] = <<100, 97, 116, 97, 58, 32>> \o hs.fragments[i]
            /\ ev[n + 1] = DoneEvent
            /\ SubSeq(hs.body, Len(hs.body) - 1, Len(hs.body)) = <<10, 10>>

\* C26: when the generation function returns an error, the adapter answers
\* as for any other text: the HTTP reply has status 200, and the DNS reply
\* is sent and its TXT text is "Error: " and the error's text
C26_ErrorIsOrdinaryText ==
    /\ httpOut.handled /\ httpOut.err => httpOut.status = 200
    /\ dnsOut.handled /\ dnsOut.err /\ ~dnsOut.panic =>
           /\ dnsOut.sent
           /\ \E res \in LLMResults :
                  res.err /\ dnsOut.response = ErrorPrefix \o res.text

\* the handler takes a codepoint of the read in this step
Interprets == sess.pc = "loop" /\ Len(sess'.data) < Len(sess.data)

\* the next input byte the handler has not interpreted is Ctrl+C
CtrlCNext ==
    \/ sess.data # <<>> /\ Head(sess.data) = 3
    \/ sess.data = <<>> /\ sess.inbox # <<>> /\ Head(Head(sess.inbox)) = 3

\* C27: once a Ctrl+C has arrived and every byte before it is interpreted,
\* in whatever state, no fragment of a generation is written any more, and
\* the next byte interpreted is the Ctrl+C, which ends the session
C27_CtrlCAborts ==
    [][sess.pc \in {"loop", "generating"} /\ CtrlCNext =>
          /\ sess'.shown = sess.shown
          /\ Interprets => sess'.pc = "terminated" /\ sess'.end = "ctrl-c"]_vars

\* the UTF-8 bytes of the codepoints the packets bring: a, e, x, i, t, the
\* space, the accented e, the smiley and U+FFFD
Utf8 ==
    { <<97>>, <<101>>, <<120>>, <<105>>, <<116>>, <<32>>, <<195, 169>>,
      <<240, 159, 152, 128>>, <<239, 191, 189>> }

\* C28: a backspace or delete takes one whole codepoint, the last, off the
\* line buffer and writes backspace, space, backspace; on an empty buffer it
\* changes nothing and writes nothing; right after a typed codepoint it
\* leaves the buffer as it was before that codepoint
C28_Backspace ==
    [][Interprets /\ Head(sess.data) \in {8, 127} =>
          /\ sess.input = <<>> => sess'.input = <<>> /\ sess'.wrote = <<>>
          /\ sess.input # <<>> =>
                /\ \E c \in Utf8 : sess.input = sess'.input \o c
                /\ sess'.wrote = << <<8, 32, 8>> >>
          /\ sess.last \notin {0, 3, 8, 10, 13, 127} => sess'.input = sess.before
          /\ sess'.pc = "loop" /\ sess'.prompts = sess.prompts]_vars

\* a delete has just taken the smiley, four bytes, off the buffer "a" and
\* the smiley
C28_Witness ==
    /\ sess.last = 127
    /\ sess.before = <<97, 240, 159, 152, 128>>
    /\ sess.input = <<97>>
    /\ sess.wrote = << <<8, 32, 8>> >>

\* the codepoints of the prompt were all typed since the last submission
OnlyTyped(query, typed) == \A i \in 1 .. Len(Runes(query)) : Runes(query)[i] \in typed

\* C29: on carriage return or newline with a non-empty buffer, the line
\* "exit" ends the session and starts no generation; any other line is
\* submitted once, as the prompt, made of codepoints typed since the last
\* submission, and the buffer is emptied; the fragments are written in
\* order, and after the last the handler writes "\r\n> " and is back to
\* collecting with an empty buffer
C29_LineSubmitted ==
    [][/\ Interprets /\ Head(sess.data) \in {10, 13} /\ Len(sess.input) > 0 =>
             IF TrimSpace(sess.input) = <<101, 120, 105, 116>>
             THEN sess'.pc = "terminated" /\ sess'.end = "exit"
                  /\ sess'.prompts = sess.prompts
             ELSE /\ sess'.pc = "generating"
                  /\ sess'.prompts = sess.prompts + 1
                  /\ sess'.query = TrimSpace(sess.input)
                  /\ OnlyTyped(sess'.query, sess.typed)
                  /\ sess'.input = <<>>
                  /\ sess'.shown = <<>>
       /\ sess.pc = "generating" =>
             /\ sess'.prompts = sess.prompts
             /\ sess'.input = <<>>
             /\ sess'.shown # sess.shown =>
                   /\ Len(sess.shown) < Len(sess.script)
                   /\ sess'.shown = Append(sess.shown, sess.script[Len(sess.shown) + 1])
                   /\ sess'.wrote = <<sess.script[Len(sess.shown) + 1]>>
             /\ sess'.pc # "generating" =>
                   /\ sess'.pc = "loop"
                   /\ sess.shown = sess.script
                   /\ sess'.wrote = << <<13, 10, 62, 32>> >>]_vars

\* the second prompt's answer, "a" then "b", is written and the handler has
\* issued the prompt marker again
C29_Witness ==
    /\ sess.pc = "loop"
    /\ sess.prompts = 2
    /\ sess.query = <<97>>
    /\ sess.shown = << <<97>>, <<98>> >>
    /\ sess.input = <<>>
    /\ sess.wrote = << <<13, 10, 62, 32>> >>

\* C30: at most 100 connections are being handled; a connection the loop
\* found all 100 slots taken for was closed and not handled, one it found a
\* free slot for is handled; and the loop, with a connection in hand, can
\* always take its step
C30_SlotPool ==
    /\ pool.handling <= 100
    /\ pool.handling + pool.releasing = pool.sem
    /\ pool.last = "closed" => pool.seen = 100
    /\ pool.last = "handled" => pool.seen < 100
    /\ pool.pc = "select" => ENABLED PoolDispatch

\* the hundred slots are taken and the connection that came was closed
C30_Witness ==
    /\ pool.handling = 100
    /\ pool.last = "closed"
    /\ pool.pc = "accept"

\* C31: the history a response of handleRoot carries is never longer than
\* 65536 bytes
C31_HistoryBounded == hist.pc = "done" => hist.sent <= 65536

\* the source address of each address tried, its port taken off; the
\* address itself where it has no port or is malformed
SourceOf(addr) ==
    CASE addr \in { <<"a", ":", "1">>, <<"a", ":", "2">>, <<"a", ":">> } -> <<"a">>
      [] addr = <<"b", ":", "1">> -> <<"b">>
      [] addr \in { <<"[", "c", ":", ":", "d", "]", ":", "1">>,
                    <<"[", "c", ":", ":", "d", "]", ":", "2">> } -> <<"c", ":", ":", "d">>
      [] addr = <<":", "1">> -> <<>>
      [] OTHER -> addr

\* C32: a call's key is its source address without the port (the address
\* as it is when it has no port or is malformed), and the call draws its
\* token from the bucket of that key and touches no other bucket, so the
\* calls of one address from different ports share a bucket
C32_KeyIsSource ==
    [][ncalls' = ncalls + 1 =>
          LET k == SourceOf(ret'.addr)
          IN  /\ ret'.ip = k
              /\ DOMAIN limiters' = DOMAIN limiters \cup {k}
              /\ \A j \in DOMAIN limiters : j # k => limiters'[j] = limiters[j]
              /\ ret'.ok
              /\ limiters'[k].tokens =
                    (IF k \in DOMAIN limiters THEN limiters[k].tokens ELSE 600) - 60]_vars

\* calls from the address a with ports 1 and 2 have taken two tokens out of
\* the one bucket there is
C32_Witness ==
    /\ ncalls = 2
    /\ ret.addr = <<"a", ":", "2">>
    /\ DOMAIN limiters = { <<"a">> }
    /\ limiters[<<"a">>].tokens = 600 - 2 * 60

\* C33: every call returns what the same call returns in a run of the same
\* calls at the same times in which no entry is ever removed; so a key
\* refused without the cleanup is refused with it
C33_CleanupUnseen == ncalls > 0 => ret.ok = ref.ok

\* the cleanup has run at this second, and a key it kept, seen a second
\* before, is refused: its bucket holds two thirds of a token, which no
\* bucket made after the cleanup can
C33_Witness ==
    /\ lastClean = now
    /\ now = 3601
    /\ ~ret.ok
    /\ ~ref.ok
    /\ ret.ip \in DOMAIN limiters
    /\ limiters[ret.ip].tokens = 40

\* the buckets of a key that are in use: the one the table holds and those
\* held by calls about to ask them
LiveBuckets(k) ==
    (IF k \in DOMAIN conc.table THEN {conc.table[k]} ELSE {})
    \cup { conc.procs[p].held : p \in { q \in Procs : conc.procs[q].pc = "allow"
                                                      /\ conc.procs[q].key = k } }

\* no key is admitted more than 10 times while the clock stands still
C34_AtMostBurst == \A k \in ConcKeys : conc.granted[k] <= 10

\* C34: however the calls interleave, a key has at most one bucket in use,
\* and the calls that returned true for a key are no more than one bucket
\* admits
C34_OneBucketPerKey ==
    /\ \A k \in ConcKeys : Cardinality(LiveBuckets(k)) <= 1
    /\ C34_AtMostBurst

\* C35: whenever a handler has invoked the generation function for a
\* request, rateLimitAllow was called for that request and returned true
C35_GenerationBehindGate ==
    (dnsOut.llm > 0 \/ httpOut.llm > 0 \/ sshOut.llm > 0) => ncalls > 0 /\ ret.ok

\* C36: for an admitted HTTP request the generation function is invoked at
\* most once, whatever the format of the response
C36_OneGenerationPerRequest ==
    httpOut.handled /\ httpOut.gate = "allowed" => httpOut.llm <= 1

\* C37: whatever arrives meanwhile, a handler decodes the question of the
\* datagram it was started for, and its reply carries that datagram's
\* transaction ID and question
C37_ReplyOfOwnDatagram ==
    \A i \in DOMAIN udp.handlers :
        LET h == udp.handlers[i]
        IN  /\ h.pc \in {"generating", "done"} => h.question = Tail(h.for)
            /\ h.pc = "done" => h.id = h.for[1] /\ h.copied = Tail(h.for)

\* the QTYPE of the question of q: the two bytes behind the root label of
\* its name; -1 when the datagram has no whole question name and type
QTypeOf(q) ==
    LET e == NameEnd(q, 12)
    IN  IF e >= 0 /\ Len(q) >= e + 3 THEN q[e + 2] * 256 + q[e + 3] ELSE 0 - 1

\* C38: a query whose question type is not TXT (16) brings no call of the
\* generation function and no reply, which would carry a TXT record
C38_OnlyTXTAnswered ==
    (dnsOut.handled /\ QTypeOf(wire) >= 0 /\ QTypeOf(wire) # 16) =>
        (dnsOut.llm = 0 /\ ~dnsOut.sent)

\* C39: the line editor never hands an empty prompt to the generation
\* function: while a generation started by a submitted line is running, the
\* prompt it was given has at least one byte
C39_NoEmptyPrompt == sess.pc = "generating" => sess.query # <<>>

\* C40: a slot is given back exactly once for each handleConnection that
\* returns, by whichever way: the return, refused by the rate limit, after a
\* failed handshake or at the close, leaves the slot to the deferred
\* function alone, which takes one token out; so the tokens in the pool are
\* those of the connections not yet ended and released, the pool is empty
\* once all of them are, and a connection that comes then is handled
C40_SlotReleasedOnce ==
    /\ [](pool.sem = pool.handling + pool.releasing)
    /\ [](pool.handling = 0 /\ pool.releasing = 0 /\ pool.pc = "select" =>
             pool.sem = 0 /\ ENABLED PoolDispatch)
    /\ [][/\ pool'.handling < pool.handling =>
                /\ pool'.exit \in {"rate-limit", "handshake", "closed"}
                /\ pool'.handling = pool.handling - 1
                /\ pool'.releasing = pool.releasing + 1
                /\ pool'.sem = pool.sem
          /\ pool'.releasing < pool.releasing =>
                /\ pool'.releasing = pool.releasing - 1
                /\ pool'.sem = pool.sem - 1
          /\ pool'.sem < pool.sem => pool'.releasing < pool.releasing]_vars

\* the pool was full, a connection was closed for it, and all hundred
\* handlers have returned since, the last refused by the rate limit, and
\* have given their slots back
C40_Witness ==
    /\ pool.last = "closed"
    /\ pool.seen = 100
    /\ pool.exit = "rate-limit"
    /\ pool.handling = 0
    /\ pool.releasing = 0
    /\ pool.sem = 0

====
